---- MODULE Spec2Model ----
(***************************************************************************)
(* Content change detection and incremental synchronization engine of the  *)
(* ExponentHR RAG system: ChangeDetectionSystem (change_detection.py) and  *)
(* SynchronizationService (synchronization_service.py).                    *)
(*                                                                         *)
(* Every run of the service is a coroutine; it is suspended only at its    *)
(* awaits (scrape, index, delete, sleep), so one action of the model is    *)
(* the code between two suspension points.  The Fetcher, the Indexer, the  *)
(* Object Store and the Discoverer are the environment: their outcomes     *)
(* are chosen with \E.                                                     *)
(***************************************************************************)
EXTENDS Integers, Sequences, FiniteSets, TLC

\* ------------------------------------------------------------- bounds
MaxRuns == 2         \* runs that may be started in one behaviour
MaxClock == 43200    \* the clock (seconds) stops advancing here
MaxFaults == 2       \* failures the environment injects in one behaviour
MaxBatch == 2        \* the configured batch size is 1..MaxBatch
MaxEdits == 1        \* fetches that find a page edited, in one behaviour
MaxEvents == 2       \* events in the history when the engine is called directly
MaxCalls == 3        \* direct calls that write the schedule, in one behaviour
MaxRegistrations == 2 \* registrations in one behaviour of registrations only
MaxMonitored == 1    \* schedule entries of a state that is saved and loaded

\* ------------------------------------------------------ program constants
HOUR == 3600
FallbackFrequency == 24

\* ------------------------------------------------------------- universe
Urls == {"A", "B", "C"}              \* URLs that pass _is_valid_url_format
BadUrls == {"bad"}                   \* a discovered link that does not
ViewTypes == <<"personal", "management">>
Runs == 1..MaxRuns
\* an absent fingerprint, event, page or result; an absent time
None == [none |-> TRUE]
NoTime == -1

\* the time that may pass between a step of the service and the start of the
\* next run
Elapsed == {0, 6 * HOUR}

\* A page as the Fetcher returns it: the text (a revision mark, its word
\* count, its level-1 headings h1 and its deeper headings h2), the title,
\* the content type the scraper assigns and the extraction timestamp mark.
Page(rev, words, h1, h2, title, ctype, stamp) ==
    [rev |-> rev, words |-> words, h1 |-> h1, h2 |-> h2,
     title |-> title, ctype |-> ctype, stamp |-> stamp]

P1 == Page(1, 20, 1, 1, "Edit Direct Deposit", "procedure", 0)
\* P1 with one heading section appended, scraped later
P2 == Page(2, 24, 1, 2, "Edit Direct Deposit", "procedure", 1)

FetchPages == {P1, P2}

\* ------------------------------------------------------------- helpers
Max(a, b) == IF a >= b THEN a ELSE b
Min(a, b) == IF a <= b THEN a ELSE b
Abs(a) == IF a >= 0 THEN a ELSE -a

SeqToSet(s) == {s[k] : k \in 1..Len(s)}

\* The order in which Python iterates a set of URLs is fixed by the hashes
\* of the strings; the URLs are interchangeable, so the model names them in
\* that order.
HashOrder == <<"A", "B", "C">>
InHashOrder(S) == SelectSeq(HashOrder, LAMBDA u : u \in S)

\* ------------------------------------------- ChangeDetectionSystem: pure

\* sha256 is modelled as injective: the digest of a value is the value,
\* tagged with what was digested.
ContentHashOf(p) == <<"content", p.rev, p.words, p.h1, p.h2>>
StructuralHashOf(p) == <<"structure", p.h1, p.h2>>

\* DocumentMetadata as the scraper builds it; the metadata hash digests all
\* of it, the content hash, word count and timestamps included.
ScrapeMetadata(url, p) ==
    [url |-> url, title |-> p.title, content_hash |-> ContentHashOf(p),
     content_type |-> p.ctype, word_count |-> p.words,
     extraction_timestamp |-> p.stamp]

MetadataHashOf(metadata) == <<"metadata", metadata>>

\* content.count('\n##') + content.count('\n#'): a level-1 heading is
\* matched by the second count only, a deeper heading by both
SectionCount(p) == p.h2 + (p.h1 + p.h2)

create_content_fingerprint(url, p, metadata, t) ==
    [url |-> url,
     content_hash |-> ContentHashOf(p),
     structural_hash |-> StructuralHashOf(p),
     metadata_hash |-> MetadataHashOf(metadata),
     last_modified |-> t,
     word_count |-> p.words,
     title |-> metadata.title,
     section_count |-> SectionCount(p)]

\* A confidence is a rational <<numerator, denominator>>, denominator > 0.
RatLe(a, b) == a[1] * b[2] <= b[1] * a[2]
RatMax(a, b) == IF RatLe(a, b) THEN b ELSE a
RatMin(a, b) == IF RatLe(a, b) THEN a ELSE b
RatOne == <<1, 1>>
RatZero == <<0, 1>>

\* changes_detected, with a slip: the metadata hash is not compared
ChangesIgnoringMetadata(old, new) ==
    (IF old.content_hash # new.content_hash THEN {"content"} ELSE {})
    \cup (IF old.structural_hash # new.structural_hash THEN {"structure"} ELSE {})

ChangesDetected(old, new) ==
    (IF old.content_hash # new.content_hash THEN {"content"} ELSE {})
    \cup (IF old.structural_hash # new.structural_hash THEN {"structure"} ELSE {})
    \cup (IF old.metadata_hash # new.metadata_hash THEN {"metadata"} ELSE {})

\* _calculate_change_confidence, with a slip: the values of the categories
\* are added up
RatAdd(a, b) == <<a[1] * b[2] + b[1] * a[2], a[2] * b[2]>>
ConfidenceSummed(old, new, changes) ==
    LET c1 == IF "content" \in changes
              THEN RatMin(<<2 * Abs(new.word_count - old.word_count),
                            Max(old.word_count, 1)>>, RatOne)
              ELSE RatZero
        c2 == IF "structure" \in changes
              THEN RatMin(<<3 * Abs(new.section_count - old.section_count),
                            Max(old.section_count, 1)>>, RatOne)
              ELSE RatZero
        c3 == IF "metadata" \in changes
              THEN (IF old.title # new.title THEN <<8, 10>> ELSE <<3, 10>>)
              ELSE RatZero
    IN  RatMin(RatAdd(RatAdd(c1, c2), c3), RatOne)

\* _calculate_change_confidence, with a slip: the two ratios are not capped
\* at 1.0
ConfidenceUncapped(old, new, changes) ==
    LET c0 == RatZero
        c1 == IF "content" \in changes
              THEN RatMax(c0, <<2 * Abs(new.word_count - old.word_count),
                                Max(old.word_count, 1)>>)
              ELSE c0
        c2 == IF "structure" \in changes
              THEN RatMax(c1, <<3 * Abs(new.section_count - old.section_count),
                                Max(old.section_count, 1)>>)
              ELSE c1
    IN  IF "metadata" \in changes
        THEN (IF old.title # new.title THEN RatMax(c2, <<8, 10>>)
                                       ELSE RatMax(c2, <<3, 10>>))
        ELSE c2

calculate_change_confidence(old, new, changes) ==
    LET c0 == RatZero
        c1 == IF "content" \in changes
              THEN RatMax(c0, RatMin(<<2 * Abs(new.word_count - old.word_count),
                                       Max(old.word_count, 1)>>, RatOne))
              ELSE c0
        c2 == IF "structure" \in changes
              THEN RatMax(c1, RatMin(<<3 * Abs(new.section_count - old.section_count),
                                       Max(old.section_count, 1)>>, RatOne))
              ELSE c1
        c3 == IF "metadata" \in changes
              THEN (IF old.title # new.title THEN RatMax(c2, <<8, 10>>)
                                             ELSE RatMax(c2, <<3, 10>>))
              ELSE c2
    IN  RatMin(c3, RatOne)

\* _determine_primary_change_type, with a slip in priority_order: content
\* before structure
PrimaryTypeContentFirst(changes) ==
    IF "content" \in changes THEN "content"
    ELSE IF "structure" \in changes THEN "structure"
    ELSE IF "metadata" \in changes THEN "metadata"
    ELSE "unknown"

determine_primary_change_type(changes) ==
    IF "structure" \in changes THEN "structure"
    ELSE IF "content" \in changes THEN "content"
    ELSE IF "metadata" \in changes THEN "metadata"
    ELSE "unknown"

\* the event for new content, with a slip: the default confidence
NewContentEventUnsure(url, new, t) ==
    [url |-> url, change_type |-> "new", old_fingerprint |-> None,
     new_fingerprint |-> new, detected_at |-> t, confidence_score |-> <<1, 2>>]

\* detect_changes: the event for a URL with no stored fingerprint
NewContentEvent(url, new, t) ==
    [url |-> url, change_type |-> "new", old_fingerprint |-> None,
     new_fingerprint |-> new, detected_at |-> t, confidence_score |-> RatOne]

\* detect_changes: the ChangeEvent it returns (None when every hash is equal)
ChangeEventOf(fps, url, new, t) ==
    IF fps[url] = None
    THEN NewContentEvent(url, new, t)
    ELSE LET old == fps[url]
             changes == ChangesDetected(old, new)
         IN  IF changes # {}
             THEN [url |-> url,
                   change_type |-> determine_primary_change_type(changes),
                   old_fingerprint |-> old, new_fingerprint |-> new,
                   detected_at |-> t,
                   confidence_score |-> calculate_change_confidence(old, new, changes)]
             ELSE None

\* the no-change path with a slip: the new fingerprint keeps the time it
\* came with
UnchangedFingerprintAsGiven(old, new) == new

\* new_fingerprint.last_modified = old_fingerprint.last_modified
UnchangedFingerprint(old, new) == [new EXCEPT !.last_modified = old.last_modified]

\* detect_changes with a slip: a changed page leaves the stored fingerprint
\* as it was
FingerprintsKeptOnChange(fps, url, new, t) ==
    IF fps[url] = None
    THEN [fps EXCEPT ![url] = new]
    ELSE IF ChangeEventOf(fps, url, new, t) # None
         THEN fps
         ELSE [fps EXCEPT ![url] = UnchangedFingerprint(fps[url], new)]

\* detect_changes with a slip: the fingerprint of a URL seen for the first
\* time is not stored
FingerprintsNewNotStored(fps, url, new, t) ==
    IF fps[url] = None THEN fps
    ELSE IF ChangeEventOf(fps, url, new, t) # None
         THEN [fps EXCEPT ![url] = new]
         ELSE [fps EXCEPT ![url] = UnchangedFingerprint(fps[url], new)]

\* detect_changes: the fingerprint map it leaves
FingerprintsAfterDetect(fps, url, new, t) ==
    IF ChangeEventOf(fps, url, new, t) # None
    THEN [fps EXCEPT ![url] = new]
    ELSE [fps EXCEPT ![url] = UnchangedFingerprint(fps[url], new)]

\* detect_changes: the change history it leaves
HistoryAfterDetect(hist, fps, url, new, t) ==
    IF ChangeEventOf(fps, url, new, t) # None
    THEN Append(hist, ChangeEventOf(fps, url, new, t))
    ELSE hist

\* The schedule map is a Python dict: a sequence of entries in insertion
\* order, one per key.  An entry also records when it was created.
SchedKeys(sch) == {sch[k].url : k \in 1..Len(sch)}
SchedPos(sch, url) == CHOOSE k \in 1..Len(sch) : sch[k].url = url
SchedGet(sch, url) == sch[SchedPos(sch, url)]
\* monitoring_schedules[url] = ..., with a slip: the map is replaced by one
\* that holds the new entry alone
SchedPutAlone(sch, e) == <<e>>
SchedPut(sch, e) ==
    IF e.url \in SchedKeys(sch) THEN [sch EXCEPT ![SchedPos(sch, e.url)] = e]
    ELSE Append(sch, e)
\* del monitoring_schedules[url], with a slip: the entry is left in place
SchedKept(sch, url) == sch
SchedDel(sch, url) ==
    IF url \in SchedKeys(sch)
    THEN SubSeq(sch, 1, SchedPos(sch, url) - 1) \o SubSeq(sch, SchedPos(sch, url) + 1, Len(sch))
    ELSE sch

\* default_frequencies.get, with a slip: the rate of 'documentation' as the
\* default
DefaultFrequencyDocumentation(ctype) ==
    CASE ctype = "procedure" -> 6
      [] ctype = "reference" -> 24
      [] ctype = "overview" -> 72
      [] ctype = "faq" -> 12
      [] OTHER -> 48

DefaultFrequency(ctype) ==
    CASE ctype = "procedure" -> 6
      [] ctype = "reference" -> 24
      [] ctype = "overview" -> 72
      [] ctype = "faq" -> 12
      [] ctype = "documentation" -> 48
      [] OTHER -> FallbackFrequency

\* the priority adjustment, with a slip: high and low exchanged
FrequencyHoursSwapped(ctype, priority) ==
    IF priority = "low" THEN Max(DefaultFrequency(ctype) \div 2, 1)
    ELSE IF priority = "high" THEN DefaultFrequency(ctype) * 2
    ELSE DefaultFrequency(ctype)

FrequencyHours(ctype, priority) ==
    IF priority = "high" THEN Max(DefaultFrequency(ctype) \div 2, 1)
    ELSE IF priority = "low" THEN DefaultFrequency(ctype) * 2
    ELSE DefaultFrequency(ctype)

\* setup_monitoring_schedule, with a slip: next_check from the rate before
\* the priority adjustment
SetupNextFromBase(sch, url, ctype, priority, t) ==
    SchedPut(sch, [url |-> url, content_type |-> ctype,
                   frequency_hours |-> FrequencyHours(ctype, priority),
                   priority |-> priority, last_check |-> NoTime,
                   next_check |-> t + DefaultFrequency(ctype) * HOUR,
                   created_at |-> t])

setup_monitoring_schedule(sch, url, ctype, priority, t) ==
    SchedPut(sch, [url |-> url, content_type |-> ctype,
                   frequency_hours |-> FrequencyHours(ctype, priority),
                   priority |-> priority, last_check |-> NoTime,
                   next_check |-> t + FrequencyHours(ctype, priority) * HOUR,
                   created_at |-> t])

\* update_monitoring_schedule, with a slip: the next check counted from the
\* previous next_check
UpdateFromNextCheck(sch, url, t) ==
    IF url \in SchedKeys(sch)
    THEN SchedPut(sch, [SchedGet(sch, url) EXCEPT
                          !.last_check = t,
                          !.next_check = SchedGet(sch, url).next_check
                                         + SchedGet(sch, url).frequency_hours * HOUR])
    ELSE sch

update_monitoring_schedule(sch, url, t) ==
    IF url \in SchedKeys(sch)
    THEN SchedPut(sch, [SchedGet(sch, url) EXCEPT
                          !.last_check = t,
                          !.next_check = t + SchedGet(sch, url).frequency_hours * HOUR])
    ELSE sch

PriorityValue(priority) ==
    CASE priority = "high" -> 0
      [] priority = "medium" -> 1
      [] priority = "low" -> 2
      [] OTHER -> 1

\* list.sort is stable: the due URLs by priority value, ties in dict order
RECURSIVE DueWithValue(_, _, _)
DueWithValue(sch, t, v) ==
    IF sch = <<>> THEN <<>>
    ELSE (IF t >= Head(sch).next_check /\ PriorityValue(Head(sch).priority) = v
          THEN <<Head(sch).url>> ELSE <<>>) \o DueWithValue(Tail(sch), t, v)

\* get_urls_due_for_check, with a slip: the sort left out
RECURSIVE DueUnsorted(_, _)
DueUnsorted(sch, t) ==
    IF sch = <<>> THEN <<>>
    ELSE (IF t >= Head(sch).next_check THEN <<Head(sch).url>> ELSE <<>>)
         \o DueUnsorted(Tail(sch), t)

get_urls_due_for_check(sch, t) ==
    DueWithValue(sch, t, 0) \o DueWithValue(sch, t, 1) \o DueWithValue(sch, t, 2)

\* --------------------------------------------------------------- state
VARIABLES
    now,                    \* the clock, in seconds
    content_fingerprints,   \* ChangeDetectionSystem.content_fingerprints
    change_history,         \* ChangeDetectionSystem.change_history
    monitoring_schedules,   \* ChangeDetectionSystem.monitoring_schedules
    active_operations,      \* SynchronizationService.active_operations
    sync_history,           \* SynchronizationService.sync_history
    sync_metrics,           \* SynchronizationService.sync_metrics
    last_full_sync,         \* SynchronizationService.last_full_sync
    last_incremental_sync,  \* SynchronizationService.last_incremental_sync
    batch_size,             \* sync_config['batch_size']
    runs,                   \* the coroutines of perform_*_synchronization
    search_index,           \* the Indexer: the page indexed for each URL
    faults,                 \* failures injected so far
    edits,                  \* fetches that found a page edited so far
    site,                   \* URL -> the page the site serves
    call,                   \* the last direct call of the engine, with its result
    scheduler_running,      \* RAGOrchestrator.scheduler_running
    jobs,                   \* the jobs registered with the schedule module
    loops                   \* the tasks of RAGOrchestrator._scheduler_loop

vars == <<now, content_fingerprints, change_history, monitoring_schedules,
          active_operations, sync_history, sync_metrics, last_full_sync,
          last_incremental_sync, batch_size, runs, search_index, faults, edits,
          site, call, scheduler_running, jobs, loops>>

orchestrator == <<scheduler_running, jobs, loops>>

\* RAGOrchestrator.__init__: the scheduler is not running; no job is
\* registered and no loop was created
OrchestratorInit == scheduler_running = FALSE /\ jobs = 0 /\ loops = <<>>

env == <<faults, edits, site>>

engine == <<content_fingerprints, change_history, monitoring_schedules>>
service == <<active_operations, sync_history, sync_metrics, last_full_sync,
             last_incremental_sync>>

\* A run: its position, its SyncOperation, the locals of perform_*_synchronization
\* and of the batch in progress, and a record of what happened to it: its
\* place among the runs started (order), the fingerprinted and the scheduled
\* URLs at its start, what it fetched, the page it saw for each URL, what it
\* submitted and deleted, the failures it met, the changes whose upsert
\* failed (unapplied), the success flag computed at "Complete operation"
\* (final_success), the SyncResults it appended (results), the one it
\* returned, and every value its status took, in order (status_log).
IdleRun ==
    [pc |-> "idle", kind |-> "none", operation_id |-> <<>>, start_time |-> 0,
     status |-> "none", completed_at |-> NoTime,
     urls_processed |-> 0, urls_updated |-> 0, urls_failed |-> 0, op_errors |-> <<>>,
     urls |-> <<>>, i |-> 0,
     total_processed |-> 0, newly_indexed |-> 0, updated_indexed |-> 0,
     removed_indexed |-> 0, errors |-> <<>>,
     b_processed |-> 0, b_newly |-> 0, b_updated |-> 0, b_errors |-> <<>>,
     cur |-> None, cur_event |-> "none",
     obsolete |-> {},
     order |-> 0, start_fps |-> {}, start_sched |-> {},
     fetched |-> <<>>, seen |-> [u \in Urls |-> None],
     submitted |-> <<>>, deleted |-> {}, failures |-> {}, unapplied |-> {},
     final_success |-> "none", results |-> 0, returned |-> None,
     status_log |-> <<>>]

\* no direct call of the engine yet
NoCall == [op |-> "none", n |-> 0]

Init ==
    /\ now = 0
    /\ content_fingerprints = [u \in Urls |-> None]
    /\ change_history = <<>>
    /\ monitoring_schedules = <<>>
    /\ active_operations = {}
    /\ sync_history = <<>>
    /\ sync_metrics = [total_syncs |-> 0, successful_syncs |-> 0, failed_syncs |-> 0]
    /\ last_full_sync = NoTime
    /\ last_incremental_sync = NoTime
    /\ batch_size \in 1..MaxBatch
    /\ runs = [r \in Runs |-> IdleRun]
    /\ search_index = [u \in Urls |-> None]
    /\ faults = 0
    /\ edits = 0
    /\ site = [u \in Urls |-> P1]
    /\ call = NoCall
    /\ OrchestratorInit

\* ------------------------------------------------- active_operations dict
ActiveIds(act) == {e.id : e \in act}
ActivePut(act, id, r) == {e \in act : e.id # id} \cup {[id |-> id, op |-> r]}
ActiveDel(act, id) == {e \in act : e.id # id}

\* _get_sync_statistics
SyncStatistics(met, act, fps, sch) ==
    [total_syncs |-> met.total_syncs,
     successful_syncs |-> met.successful_syncs,
     failed_syncs |-> met.failed_syncs,
     active_operations |-> Cardinality(act),
     total_documents |-> Cardinality({u \in Urls : fps[u] # None}),
     monitored_urls |-> Len(sch)]

\* _update_sync_metrics
update_sync_metrics(met, success) ==
    [met EXCEPT !.total_syncs = @ + 1,
                !.successful_syncs = IF success THEN @ + 1 ELSE @,
                !.failed_syncs = IF success THEN @ ELSE @ + 1]

SyncResultOf(rr, success, met, act, fps, sch, t) ==
    [operation_id |-> rr.operation_id, success |-> success,
     total_processed |-> rr.total_processed, newly_indexed |-> rr.newly_indexed,
     updated_indexed |-> rr.updated_indexed, removed_indexed |-> rr.removed_indexed,
     errors |-> rr.errors, execution_time |-> t - rr.start_time,
     sync_statistics |-> SyncStatistics(met, act, fps, sch)]

\* what discover_navigation_structure may return, view by view
SiteLinks == <<{{"A", "B"}}, {{"C", "bad"}, {"bad"}}>>
\* a site of one page
SmallSiteLinks == <<{{"A"}}, {{"bad"}}>>

is_valid_url_format(url) == url \in Urls

\* ------------------------------------------------------------ run steps

\* success = len(errors) == 0, with a slip: the run counts as clean when no
\* URL of a batch failed
SuccessFromUrlsFailed(rr) == rr.urls_failed = 0

\* success = len(errors) == 0
RunSucceeded(rr) == rr.errors = <<>>

\* sync_operation.status with a slip: every run that reaches its finalization
\* is marked completed
FinalStatusCompleted(success) == "completed"

\* sync_operation.status = 'completed' if success else 'failed'
FinalStatus(success) == IF success THEN "completed" ELSE "failed"

\* The tail of perform_full_synchronization and of
\* perform_incremental_synchronization from "Complete operation" on: mark the
\* operation, update the metrics, append the result, delete the active entry.
\* A missing active entry is a KeyError inside the try block: the handler
\* marks the operation failed, appends a second result and deletes again,
\* which raises out of the coroutine.
Completion(rr, fps, sch) ==
    LET success == RunSucceeded(rr)
        met1 == update_sync_metrics(sync_metrics, success)
        res1 == SyncResultOf(rr, success, met1, active_operations, fps, sch, now)
        found == rr.operation_id \in ActiveIds(active_operations)
        errs2 == Append(rr.errors, <<"failed", rr.kind>>)
        met2 == update_sync_metrics(met1, FALSE)
        rr2 == [rr EXCEPT !.errors = errs2]
        res2 == SyncResultOf(rr2, FALSE, met2, active_operations, fps, sch, now)
    IN  IF found
        THEN [run |-> [rr EXCEPT !.pc = "done",
                                 !.status = FinalStatus(success),
                                 !.completed_at = now,
                                 !.final_success = IF success THEN "true" ELSE "false",
                                 !.results = @ + 1,
                                 !.returned = res1,
                                 !.status_log = Append(@, FinalStatus(success))],
              history |-> Append(sync_history, res1),
              metrics |-> met1,
              active |-> ActiveDel(active_operations, rr.operation_id)]
        ELSE [run |-> [rr2 EXCEPT !.pc = "raised",
                                  !.status = "failed",
                                  !.completed_at = now,
                                  !.op_errors = errs2,
                                  !.final_success = IF success THEN "true" ELSE "false",
                                  !.results = @ + 2,
                                  !.status_log = IF success THEN @ \o <<"completed", "failed">>
                                                            ELSE Append(@, "failed")],
              history |-> Append(Append(sync_history, res1), res2),
              metrics |-> met2,
              active |-> active_operations]

\* the runs started so far
Started == Cardinality({r \in Runs : runs[r].pc # "idle"})

\* a fetch that returns another page than the site served last has found
\* the page edited
Edited(url, p) == p # site[url]

\* perform_full_synchronization up to the first await
StartFull(r) ==
    /\ runs[r].pc = "idle"
    /\ \E d \in Elapsed :
         /\ now + d <= MaxClock
         /\ now' = now + d
         /\ runs' = [runs EXCEPT ![r] = [IdleRun EXCEPT
                         !.pc = "discover", !.kind = "full_sync",
                         !.operation_id = <<"full_sync", now + d>>,
                         !.start_time = now + d, !.status = "running",
                         !.status_log = <<"running">>,
                         !.order = Started + 1,
                         !.start_fps = {u \in Urls : content_fingerprints[u] # None},
                         !.start_sched = SchedKeys(monitoring_schedules)]]
         /\ active_operations' = ActivePut(active_operations, <<"full_sync", now + d>>, r)
    /\ UNCHANGED <<engine, sync_history, sync_metrics, last_full_sync,
                   last_incremental_sync, batch_size, orchestrator, call, search_index, env>>

\* obsolete_urls = stored_urls - current_urls, with the operands swapped
ObsoleteSwapped(fps, current_urls) ==
    SeqToSet(current_urls) \ {u \in Urls : fps[u] # None}

\* obsolete_urls = stored_urls - current_urls
ObsoleteUrls(fps, current_urls) ==
    {u \in Urls : fps[u] # None} \ SeqToSet(current_urls)

\* _cleanup_obsolete_documents up to its first await
EnterCleanup(rr, fps) ==
    [rr EXCEPT !.pc = "cleanup", !.obsolete = ObsoleteUrls(fps, rr.urls)]

\* a full run that has no delete left to await completes
FinishFull(r, rr, fps, sch) ==
    LET c == Completion(rr, fps, sch)
    IN  /\ runs' = [runs EXCEPT ![r] = c.run]
        /\ sync_history' = c.history
        /\ sync_metrics' = c.metrics
        /\ active_operations' = c.active
        /\ last_full_sync' = now
        /\ UNCHANGED last_incremental_sync

CleanupOrFinish(r, rr, fps, sch) ==
    IF EnterCleanup(rr, fps).obsolete = {}
    THEN FinishFull(r, EnterCleanup(rr, fps), fps, sch)
    ELSE /\ runs' = [runs EXCEPT ![r] = EnterCleanup(rr, fps)]
         /\ UNCHANGED service

\* Steps 1 and 2 of a full run: discovery of every view, then validation.
\* A view whose discovery raises adds an error and the loop goes on.
DiscoverFrom(r, LinkSets) ==
    /\ runs[r].pc = "discover"
    /\ \E ok \in [1..Len(ViewTypes) -> BOOLEAN],
          links \in [1..Len(ViewTypes) -> {{}} \cup LinkSets[1] \cup LinkSets[2]] :
         LET failed == {v \in 1..Len(ViewTypes) : ~ok[v]}
             all_discovered_urls == UNION {links[v] : v \in (1..Len(ViewTypes)) \ failed}
             valid == {u \in all_discovered_urls : is_valid_url_format(u)}
             errs == (IF 1 \in failed THEN <<<<"discover", ViewTypes[1]>>>> ELSE <<>>)
                     \o (IF 2 \in failed THEN <<<<"discover", ViewTypes[2]>>>> ELSE <<>>)
         IN  /\ faults + Cardinality(failed) <= MaxFaults
             /\ \A v \in 1..Len(ViewTypes) :
                    IF v \in failed THEN links[v] = {} ELSE links[v] \in LinkSets[v]
             /\ faults' = faults + Cardinality(failed)
             /\ LET valid_urls == InHashOrder(valid)
                      rr == [runs[r] EXCEPT
                               !.errors = errs, !.urls = valid_urls, !.i = 1, !.pc = "batch",
                               !.failures = {<<"discover", ViewTypes[v]>> : v \in failed}]
                  IN  IF valid_urls = <<>>
                      THEN CleanupOrFinish(r, rr, content_fingerprints, monitoring_schedules)
                      ELSE /\ runs' = [runs EXCEPT ![r] = rr]
                           /\ UNCHANGED service
    /\ UNCHANGED <<now, engine, batch_size, orchestrator, call, search_index, edits, site>>

\* sync_operation.urls_failed = len(errors), with a slip: the errors of the
\* batch just processed only
UrlsFailedThisBatch(rr) == Len(rr.b_errors)

\* errors.extend(batch_result['errors']) ... urls_failed = len(errors)
UrlsFailedAfterBatch(rr) == Len(rr.errors \o rr.b_errors)

\* total_processed with a slip: assigned from the batch, not added to
TotalProcessedThisBatch(rr) == rr.b_processed

\* total_processed += batch_result['processed']
TotalProcessedAfterBatch(rr) == rr.total_processed + rr.b_processed

\* errors.extend with a slip: the errors of the batch are put in front
ErrorsBatchFirst(rr) == rr.b_errors \o rr.errors

\* errors.extend(batch_result['errors'])
ErrorsAfterBatch(rr) == rr.errors \o rr.b_errors

\* sync_operation.urls_updated, with a slip: the documents of the batch
\* just processed only
UrlsUpdatedThisBatch(rr) == rr.b_newly + rr.b_updated

\* sync_operation.urls_updated = newly_indexed + updated_indexed
UrlsUpdatedAfterBatch(rr) ==
    rr.newly_indexed + rr.b_newly + rr.updated_indexed + rr.b_updated

\* The end of one iteration of _process_url_batch: the next URL, and at the
\* end of a batch the totals and the SyncOperation counters.
AfterFullUrl(rr) ==
    LET last == (rr.i = Len(rr.urls))
        batch_end == last \/ (rr.i % batch_size = 0)
        errs == ErrorsAfterBatch(rr)
    IN  IF batch_end
        THEN [rr EXCEPT !.i = @ + 1,
                        !.pc = IF last THEN "cleanup_start" ELSE "batch",
                        !.total_processed = TotalProcessedAfterBatch(rr),
                        !.newly_indexed = @ + rr.b_newly,
                        !.updated_indexed = @ + rr.b_updated,
                        !.errors = errs,
                        !.urls_processed = rr.total_processed + rr.b_processed,
                        !.urls_updated = UrlsUpdatedAfterBatch(rr),
                        !.urls_failed = UrlsFailedAfterBatch(rr),
                        !.op_errors = errs,
                        !.b_processed = 0, !.b_newly = 0, !.b_updated = 0,
                        !.b_errors = <<>>,
                        !.cur = None, !.cur_event = "none"]
        ELSE [rr EXCEPT !.i = @ + 1, !.pc = "batch", !.cur = None, !.cur_event = "none"]

\* _process_url_batch: scrape_document returns a failure
FullFetchFail(r) ==
    /\ runs[r].pc = "batch" /\ runs[r].kind = "full_sync"
    /\ faults < MaxFaults
    /\ faults' = faults + 1
    /\ LET rr == runs[r]
           url == rr.urls[rr.i]
       IN  runs' = [runs EXCEPT ![r] = AfterFullUrl(
                        [rr EXCEPT !.b_processed = @ + 1,
                                   !.b_errors = Append(@, <<"scrape", url>>),
                                   !.fetched = Append(@, url),
                                   !.failures = @ \cup {<<"scrape", url>>}])]
    /\ UNCHANGED <<now, engine, service, batch_size, orchestrator, call, search_index, edits, site>>

\* _process_url_batch: scrape_document returns a page; fingerprint, classify
\* and submit to the Indexer
FullFetch(r) ==
    /\ runs[r].pc = "batch" /\ runs[r].kind = "full_sync"
    /\ \E p \in FetchPages :
         LET rr == runs[r]
             url == rr.urls[rr.i]
             fp == create_content_fingerprint(url, p, ScrapeMetadata(url, p), now)
             ev == ChangeEventOf(content_fingerprints, url, fp, now)
         IN  /\ Edited(url, p) => edits < MaxEdits
             /\ edits' = IF Edited(url, p) THEN edits + 1 ELSE edits
             /\ site' = [site EXCEPT ![url] = p]
             /\ content_fingerprints' = FingerprintsAfterDetect(content_fingerprints, url, fp, now)
             /\ change_history' = HistoryAfterDetect(change_history, content_fingerprints, url, fp, now)
             /\ runs' = [runs EXCEPT ![r] =
                    [rr EXCEPT !.b_processed = @ + 1,
                               !.pc = "index",
                               !.cur = p,
                               !.cur_event = IF ev = None THEN "none" ELSE ev.change_type,
                               !.fetched = Append(@, url),
                               !.seen = [@ EXCEPT ![url] = p],
                               !.submitted = Append(@, url)]]
    /\ UNCHANGED <<now, monitoring_schedules, service, batch_size, orchestrator, call, search_index, faults>>

\* _process_url_batch: index_document returns
FullIndexed(r) ==
    /\ runs[r].pc = "index" /\ runs[r].kind = "full_sync"
    /\ LET rr == runs[r]
           url == rr.urls[rr.i]
       IN  \/ \* indexed; the schedule is set up and the content stored
              /\ search_index' = [search_index EXCEPT ![url] = rr.cur]
              /\ monitoring_schedules' =
                    setup_monitoring_schedule(monitoring_schedules, url, rr.cur.ctype, "medium", now)
              /\ \E stored \in BOOLEAN :
                    /\ ~stored => faults < MaxFaults
                    /\ faults' = IF stored THEN faults ELSE faults + 1
                    /\ runs' = [runs EXCEPT ![r] = AfterFullUrl(
                          [rr EXCEPT !.b_newly = IF rr.cur_event = "new" THEN @ + 1 ELSE @,
                                     !.b_updated = IF rr.cur_event = "new" THEN @ ELSE @ + 1,
                                     !.failures = IF stored THEN @ ELSE @ \cup {<<"store", url>>}])]
           \/ \* the Indexer failed
              /\ faults < MaxFaults
              /\ faults' = faults + 1
              /\ runs' = [runs EXCEPT ![r] = AfterFullUrl(
                    [rr EXCEPT !.b_errors = Append(@, <<"index", url>>),
                               !.failures = @ \cup {<<"index", url>>},
                               !.unapplied = IF rr.cur_event = "none" THEN @
                                             ELSE @ \cup {<<url, rr.cur>>}])]
              /\ UNCHANGED <<monitoring_schedules, search_index>>
    /\ UNCHANGED <<now, content_fingerprints, change_history, service, batch_size, orchestrator, call, edits, site>>

Discover(r) == DiscoverFrom(r, SiteLinks)
DiscoverSmall(r) == DiscoverFrom(r, SmallSiteLinks)

\* the result of an incremental run with nothing due, with a slip: the
\* schedule entries counted as processed
NothingDueResultCounted(rr, act, t) ==
    [SyncResultOf(rr, TRUE, sync_metrics, act, content_fingerprints,
                  monitoring_schedules, t)
        EXCEPT !.total_processed = Len(monitoring_schedules)]

\* the SyncResult of an incremental run with nothing due
NothingDueResult(rr, act, t) ==
    SyncResultOf(rr, TRUE, sync_metrics, act, content_fingerprints,
                 monitoring_schedules, t)

\* perform_incremental_synchronization up to the first await; with nothing
\* due it returns before any await
StartIncremental(r) ==
    /\ runs[r].pc = "idle"
    /\ \E d \in Elapsed :
         LET t == now + d
             id == <<"incremental_sync", t>>
             urls_to_check == get_urls_due_for_check(monitoring_schedules, t)
             rr == [IdleRun EXCEPT
                      !.pc = "batch", !.kind = "incremental_sync",
                      !.operation_id = id, !.start_time = t, !.status = "running",
                      !.status_log = <<"running">>,
                      !.urls = urls_to_check, !.i = 1,
                      !.order = Started + 1,
                      !.start_fps = {u \in Urls : content_fingerprints[u] # None},
                      !.start_sched = SchedKeys(monitoring_schedules)]
             act == ActivePut(active_operations, id, r)
         IN  /\ t <= MaxClock
             /\ now' = t
             /\ IF urls_to_check = <<>>
                THEN /\ runs' = [runs EXCEPT ![r] =
                            [rr EXCEPT !.pc = "done", !.results = 1,
                                       !.returned = NothingDueResult(rr, act, t)]]
                     /\ sync_history' = Append(sync_history, NothingDueResult(rr, act, t))
                     /\ active_operations' = ActiveDel(act, id)
                ELSE /\ runs' = [runs EXCEPT ![r] = rr]
                     /\ active_operations' = act
                     /\ UNCHANGED sync_history
    /\ UNCHANGED <<engine, sync_metrics, last_full_sync, last_incremental_sync,
                   batch_size, orchestrator, call, search_index, env>>

\* The end of one iteration of _process_incremental_batch
AfterIncrUrl(rr) ==
    LET last == (rr.i = Len(rr.urls))
        batch_end == last \/ (rr.i % batch_size = 0)
        errs == ErrorsAfterBatch(rr)
    IN  IF batch_end
        THEN [rr EXCEPT !.i = @ + 1,
                        !.pc = IF last THEN "complete" ELSE "batch",
                        !.total_processed = @ + rr.b_processed,
                        !.updated_indexed = @ + rr.b_updated,
                        !.errors = errs,
                        !.urls_processed = rr.total_processed + rr.b_processed,
                        !.urls_updated = rr.updated_indexed + rr.b_updated,
                        !.urls_failed = Len(errs),
                        !.op_errors = errs,
                        !.b_processed = 0, !.b_updated = 0, !.b_errors = <<>>,
                        !.cur = None, !.cur_event = "none"]
        ELSE [rr EXCEPT !.i = @ + 1, !.pc = "batch", !.cur = None, !.cur_event = "none"]

\* _process_incremental_batch: scrape_document returns a failure
IncrFetchFail(r) ==
    /\ runs[r].pc = "batch" /\ runs[r].kind = "incremental_sync"
    /\ faults < MaxFaults
    /\ faults' = faults + 1
    /\ LET rr == runs[r]
           url == rr.urls[rr.i]
       IN  /\ monitoring_schedules' = update_monitoring_schedule(monitoring_schedules, url, now)
           /\ runs' = [runs EXCEPT ![r] = AfterIncrUrl(
                        [rr EXCEPT !.b_processed = @ + 1,
                                   !.fetched = Append(@, url),
                                   !.failures = @ \cup {<<"scrape", url>>}])]
    /\ UNCHANGED <<now, content_fingerprints, change_history, service, batch_size, orchestrator, call,
                   search_index, edits, site>>

\* _process_incremental_batch: scrape_document returns a page; fingerprint
\* and classify, and submit to the Indexer when a change was detected
IncrFetch(r) ==
    /\ runs[r].pc = "batch" /\ runs[r].kind = "incremental_sync"
    /\ \E p \in FetchPages :
         LET rr == runs[r]
             url == rr.urls[rr.i]
             fp == create_content_fingerprint(url, p, ScrapeMetadata(url, p), now)
             ev == ChangeEventOf(content_fingerprints, url, fp, now)
             rf == [rr EXCEPT !.b_processed = @ + 1, !.fetched = Append(@, url),
                              !.seen = [@ EXCEPT ![url] = p]]
         IN  /\ Edited(url, p) => edits < MaxEdits
             /\ edits' = IF Edited(url, p) THEN edits + 1 ELSE edits
             /\ site' = [site EXCEPT ![url] = p]
             /\ content_fingerprints' = FingerprintsAfterDetect(content_fingerprints, url, fp, now)
             /\ change_history' = HistoryAfterDetect(change_history, content_fingerprints, url, fp, now)
             /\ IF ev # None
                THEN /\ runs' = [runs EXCEPT ![r] =
                            [rf EXCEPT !.pc = "index", !.cur = p,
                                       !.cur_event = ev.change_type,
                                       !.submitted = Append(@, url)]]
                     /\ UNCHANGED monitoring_schedules
                ELSE /\ monitoring_schedules' =
                            update_monitoring_schedule(monitoring_schedules, url, now)
                     /\ runs' = [runs EXCEPT ![r] = AfterIncrUrl(rf)]
    /\ UNCHANGED <<now, service, batch_size, orchestrator, call, search_index, faults>>

\* _process_incremental_batch: index_document returns
IncrIndexed(r) ==
    /\ runs[r].pc = "index" /\ runs[r].kind = "incremental_sync"
    /\ LET rr == runs[r]
           url == rr.urls[rr.i]
       IN  /\ monitoring_schedules' = update_monitoring_schedule(monitoring_schedules, url, now)
           /\ \/ \* indexed; the content is stored
                 /\ search_index' = [search_index EXCEPT ![url] = rr.cur]
                 /\ \E stored \in BOOLEAN :
                       /\ ~stored => faults < MaxFaults
                       /\ faults' = IF stored THEN faults ELSE faults + 1
                       /\ runs' = [runs EXCEPT ![r] = AfterIncrUrl(
                             [rr EXCEPT !.b_updated = @ + 1,
                                        !.failures = IF stored THEN @ ELSE @ \cup {<<"store", url>>}])]
              \/ \* the Indexer failed
                 /\ faults < MaxFaults
                 /\ faults' = faults + 1
                 /\ runs' = [runs EXCEPT ![r] = AfterIncrUrl(
                       [rr EXCEPT !.b_errors = Append(@, <<"index", url>>),
                                  !.failures = @ \cup {<<"index", url>>},
                                  !.unapplied = @ \cup {<<url, rr.cur>>}])]
                 /\ UNCHANGED search_index
    /\ UNCHANGED <<now, content_fingerprints, change_history, service, batch_size, orchestrator, call, edits, site>>

\* an incremental run completes after the sleep that ends its last batch
IncrComplete(r) ==
    /\ runs[r].pc = "complete"
    /\ LET c == Completion(runs[r], content_fingerprints, monitoring_schedules)
       IN  /\ runs' = [runs EXCEPT ![r] = c.run]
           /\ sync_history' = c.history
           /\ sync_metrics' = c.metrics
           /\ active_operations' = c.active
           /\ last_incremental_sync' = now
    /\ UNCHANGED <<now, engine, last_full_sync, batch_size, orchestrator, call, search_index, env>>

\* Step 4 of a full run, after the sleep that ends the last batch
CleanupStart(r) ==
    /\ runs[r].pc = "cleanup_start"
    /\ CleanupOrFinish(r, runs[r], content_fingerprints, monitoring_schedules)
    /\ UNCHANGED <<now, engine, batch_size, orchestrator, call, search_index, env>>

\* removed_count after one delete, with a slip: counted whether or not the
\* delete succeeded
RemovedCountedAlways(n, delete_success) == n + 1

\* if delete_success: removed_count += 1
RemovedAfterDelete(n, delete_success) == IF delete_success THEN n + 1 ELSE n

\* _cleanup_obsolete_documents: delete_document returns for one obsolete URL
CleanupDelete(r) ==
    /\ runs[r].pc = "cleanup"
    /\ \E url \in runs[r].obsolete, delete_success \in BOOLEAN :
         LET rr == [runs[r] EXCEPT
                       !.obsolete = @ \ {url},
                       !.deleted = @ \cup {url},
                       !.removed_indexed = RemovedAfterDelete(@, delete_success),
                       !.failures = IF delete_success THEN @ ELSE @ \cup {<<"delete", url>>}]
             fps == IF delete_success THEN [content_fingerprints EXCEPT ![url] = None]
                    ELSE content_fingerprints
             sch == IF delete_success THEN SchedDel(monitoring_schedules, url)
                    ELSE monitoring_schedules
         IN  /\ ~delete_success => faults < MaxFaults
             /\ faults' = IF delete_success THEN faults ELSE faults + 1
             /\ content_fingerprints' = fps
             /\ monitoring_schedules' = sch
             /\ search_index' = IF delete_success THEN [search_index EXCEPT ![url] = None]
                                ELSE search_index
             /\ IF rr.obsolete = {}
                THEN FinishFull(r, rr, fps, sch)
                ELSE /\ runs' = [runs EXCEPT ![r] = rr]
                     /\ UNCHANGED service
    /\ UNCHANGED <<now, change_history, batch_size, orchestrator, call, edits, site>>

\* no coroutine of the service is suspended
Quiet == \A r \in Runs : runs[r].pc \in {"idle", "done", "raised"}

\* the steps of a run that has started and has its URLs
Step(r) ==
    \/ FullFetchFail(r)
    \/ FullFetch(r)
    \/ FullIndexed(r)
    \/ CleanupStart(r)
    \/ CleanupDelete(r)
    \/ IncrFetchFail(r)
    \/ IncrFetch(r)
    \/ IncrIndexed(r)
    \/ IncrComplete(r)

\* The single coordinating flow: a run is started when no other is active.
Next ==
    \/ \E r \in Runs : Quiet /\ StartFull(r)
    \/ \E r \in Runs : Quiet /\ StartIncremental(r)
    \/ \E r \in Runs : Discover(r)
    \/ \E r \in Runs : Step(r)

Spec == Init /\ [][Next]_vars

\* The service after one full run at time 0 that found A, B and C, each
\* serving P1, in which nothing failed (Spec reaches this state: WarmReached).
WarmFingerprint(u) == create_content_fingerprint(u, P1, ScrapeMetadata(u, P1), 0)
WarmHistory ==
    [k \in 1..Len(HashOrder) |->
        ChangeEventOf([u \in Urls |-> None], HashOrder[k], WarmFingerprint(HashOrder[k]), 0)]
WarmSchedules ==
    [k \in 1..Len(HashOrder) |->
        [url |-> HashOrder[k], content_type |-> P1.ctype,
         frequency_hours |-> FrequencyHours(P1.ctype, "medium"),
         priority |-> "medium", last_check |-> NoTime,
         next_check |-> FrequencyHours(P1.ctype, "medium") * HOUR,
         created_at |-> 0]]
WarmResult ==
    [operation_id |-> <<"full_sync", 0>>, success |-> TRUE,
     total_processed |-> 3, newly_indexed |-> 3, updated_indexed |-> 0,
     removed_indexed |-> 0, errors |-> <<>>, execution_time |-> 0,
     sync_statistics |->
        [total_syncs |-> 1, successful_syncs |-> 1, failed_syncs |-> 0,
         active_operations |-> 1, total_documents |-> 3, monitored_urls |-> 3]]

WarmService ==
    /\ content_fingerprints = [u \in Urls |-> WarmFingerprint(u)]
    /\ change_history = WarmHistory
    /\ monitoring_schedules = WarmSchedules
    /\ active_operations = {}
    /\ sync_history = <<WarmResult>>
    /\ sync_metrics = [total_syncs |-> 1, successful_syncs |-> 1, failed_syncs |-> 0]
    /\ last_full_sync = 0
    /\ last_incremental_sync = NoTime
    /\ search_index = [u \in Urls |-> P1]

WarmReached == now = 0 /\ WarmService /\ Quiet /\ site = [u \in Urls |-> P1]

WarmInit ==
    /\ now = 0
    /\ WarmService
    /\ batch_size \in 1..MaxBatch
    /\ runs = [r \in Runs |-> IdleRun]
    /\ faults = 0
    /\ edits = 0
    /\ site = [u \in Urls |-> P1]
    /\ call = NoCall
    /\ OrchestratorInit

SpecWarm == WarmInit /\ [][Next]_vars

\* Logically concurrent runs over a site of one page: a run may be started
\* while another is suspended.
NextConcurrent ==
    \/ \E r \in Runs : StartFull(r)
    \/ \E r \in Runs : StartIncremental(r)
    \/ \E r \in Runs : DiscoverSmall(r)
    \/ \E r \in Runs : Step(r)

SpecConcurrent == Init /\ [][NextConcurrent]_vars

\* _save_sync_state: the state data uploaded
SyncStateData ==
    [sync_metrics |-> sync_metrics, last_full_sync |-> last_full_sync,
     last_incremental_sync |-> last_incremental_sync,
     sync_history |-> sync_history, active_operations |-> active_operations]

\* SynchronizationService.shutdown: the state is saved and the browser is
\* closed.  It sets no flag and cancels no task: the runs and the fields of
\* the service are as they were.
Shutdown ==
    /\ call.op # "shutdown"
    /\ call' = [op |-> "shutdown", n |-> 0, saved |-> SyncStateData]
    /\ UNCHANGED <<now, engine, service, batch_size, orchestrator, runs, search_index, env>>

\* the service is shut down at any moment, before, during or after its runs
NextShutdown ==
    \/ Next
    \/ Shutdown

SpecShutdown == Init /\ [][NextShutdown]_vars

\* ------------------------------------- the engine, called directly

\* Fingerprints create_content_fingerprint makes: the content digest fixes
\* the structural digest and the word and section counts (they are computed
\* from the same text); the metadata digest is free of them and fixes the
\* title.
TitleOf(m) == IF m = 3 THEN "Direct Deposit (updated)" ELSE "Edit Direct Deposit"
PageTexts ==
    {[content |-> 1, structure |-> 1, word_count |-> 0, section_count |-> 0],
     [content |-> 2, structure |-> 1, word_count |-> 20, section_count |-> 0],
     [content |-> 3, structure |-> 2, word_count |-> 300, section_count |-> 3],
     [content |-> 4, structure |-> 2, word_count |-> 310, section_count |-> 3],
     [content |-> 5, structure |-> 3, word_count |-> 310, section_count |-> 4]}
EngineFingerprints(url, t) ==
    {[url |-> url,
      content_hash |-> <<"content", p.content>>,
      structural_hash |-> <<"structure", p.structure>>,
      metadata_hash |-> <<"metadata", m>>,
      last_modified |-> t,
      word_count |-> p.word_count,
      title |-> TitleOf(m),
      section_count |-> p.section_count] :
        p \in PageTexts, m \in 1..3}

\* the engine as constructed; the service around it stays as constructed,
\* with a batch size of 1
EngineInit == Init /\ batch_size = 1

ServiceIdle ==
    UNCHANGED <<service, batch_size, orchestrator, runs, search_index, env>>

\* detect_changes(url, new_fingerprint)
Classify(url) ==
    /\ Len(change_history) < MaxEvents
    /\ \E new \in EngineFingerprints(url, now) :
         /\ content_fingerprints' =
                FingerprintsAfterDetect(content_fingerprints, url, new, now)
         /\ change_history' =
                HistoryAfterDetect(change_history, content_fingerprints, url, new, now)
         /\ call' = [op |-> "detect_changes", n |-> 0, url |-> url, new |-> new,
                     result |-> ChangeEventOf(content_fingerprints, url, new, now)]
    /\ UNCHANGED <<now, monitoring_schedules>>
    /\ ServiceIdle

NextClassify == \E url \in Urls : Classify(url)

SpecClassify == EngineInit /\ [][NextClassify]_vars

\* ------------------------------------- the schedule, called directly

\* content types: the keys of default_frequencies and 'unknown', the type
\* content discovery gives a link it cannot classify
ContentTypes == {"procedure", "reference", "overview", "faq", "documentation",
                 "unknown"}
Priorities == {"high", "medium", "low"}
\* the types registered where the order of the due list is examined: the
\* most frequent type (due after 3, 6 or 12 hours, by priority) and one that
\* is not due before the clock stops
ScheduleTypes == {"procedure", "unknown"}
CheckInterval == 6 * HOUR

\* setup_monitoring_schedule(url, content_type, priority)
Register(url, ctype, priority) ==
    /\ monitoring_schedules' =
           setup_monitoring_schedule(monitoring_schedules, url, ctype, priority, now)
    /\ call' = [op |-> "setup_monitoring_schedule", n |-> call.n + 1, url |-> url,
                content_type |-> ctype, priority |-> priority]
    /\ UNCHANGED <<now, content_fingerprints, change_history>>
    /\ ServiceIdle

\* update_monitoring_schedule(url)
MarkChecked(url) ==
    /\ monitoring_schedules' = update_monitoring_schedule(monitoring_schedules, url, now)
    /\ call' = [op |-> "update_monitoring_schedule", n |-> call.n + 1, url |-> url]
    /\ UNCHANGED <<now, content_fingerprints, change_history>>
    /\ ServiceIdle

\* get_urls_due_for_check()
GetDue ==
    /\ call' = [op |-> "get_urls_due_for_check", n |-> call.n,
                result |-> get_urls_due_for_check(monitoring_schedules, now)]
    /\ UNCHANGED <<now, content_fingerprints, change_history, monitoring_schedules>>
    /\ ServiceIdle

\* time passes between two calls
Wait ==
    /\ now + CheckInterval <= MaxClock
    /\ now' = now + CheckInterval
    /\ call' = [op |-> "none", n |-> call.n]
    /\ UNCHANGED <<content_fingerprints, change_history, monitoring_schedules>>
    /\ ServiceIdle

\* registrations, checks and queries of the due list, as time passes
NextSchedule ==
    \/ /\ call.n < MaxCalls
       /\ \E url \in Urls, ctype \in ScheduleTypes, priority \in Priorities :
             Register(url, ctype, priority)
    \/ /\ call.n < MaxCalls
       /\ \E url \in Urls : MarkChecked(url)
    \/ GetDue
    \/ Wait

SpecSchedule == EngineInit /\ [][NextSchedule]_vars

\* registrations of every content type with every priority, as time passes
NextRegister ==
    \/ /\ call.n < MaxRegistrations
       /\ \E url \in Urls, ctype \in ContentTypes, priority \in Priorities :
             Register(url, ctype, priority)
    \/ Wait

SpecRegister == EngineInit /\ [][NextRegister]_vars

\* the engine called with fingerprints of the pages, again and again as time
\* passes
NextRecheck ==
    \/ \E url \in Urls : Classify(url)
    \/ Wait

SpecRecheck == EngineInit /\ [][NextRecheck]_vars

\* ------------------------------------------------- the text of a page

\* A content is a string: a sequence of characters, here a newline, the
\* heading marker '#' and any other character.
NL == "\n"
Chars == {NL, "#", "x"}
MaxContent == 4
MaxLevel == 3
RECURSIVE StringsOf(_)
StringsOf(n) ==
    IF n = 0 THEN {<<>>}
    ELSE StringsOf(n - 1)
         \cup {Append(c, ch) : c \in {d \in StringsOf(n - 1) : Len(d) = n - 1},
                               ch \in Chars}
Contents == StringsOf(MaxContent)

\* str.count(sub): the occurrences of sub that do not overlap, from the left
RECURSIVE CountFrom(_, _, _)
CountFrom(content, sub, i) ==
    IF i + Len(sub) - 1 > Len(content) THEN 0
    ELSE IF SubSeq(content, i, i + Len(sub) - 1) = sub
         THEN 1 + CountFrom(content, sub, i + Len(sub))
         ELSE CountFrom(content, sub, i + 1)

\* section_count = content.count('\n##') + content.count('\n#')
SectionCountOf(content) ==
    CountFrom(content, <<NL, "#", "#">>, 1) + CountFrom(content, <<NL, "#">>, 1)

\* a heading section of one level: a blank line, the marker, a title, a line
\* of text
RECURSIVE Marker(_)
Marker(level) == IF level = 0 THEN <<>> ELSE <<"#">> \o Marker(level - 1)
HeadingSection(level) == <<NL, NL>> \o Marker(level) \o <<"x", NL, "x">>

\* the engine as constructed, and a page whose content was scraped
ContentInit ==
    /\ now = 0
    /\ content_fingerprints = [u \in Urls |-> None]
    /\ change_history = <<>>
    /\ monitoring_schedules = <<>>
    /\ active_operations = {}
    /\ sync_history = <<>>
    /\ sync_metrics = [total_syncs |-> 0, successful_syncs |-> 0, failed_syncs |-> 0]
    /\ last_full_sync = NoTime
    /\ last_incremental_sync = NoTime
    /\ batch_size = 1
    /\ runs = [r \in Runs |-> IdleRun]
    /\ search_index = [u \in Urls |-> None]
    /\ faults = 0
    /\ edits = 0
    /\ site = [u \in Urls |-> P1]
    /\ \E content \in Contents : call = [op |-> "scrape_document", n |-> 0,
                                          content |-> content]
    /\ OrchestratorInit

\* create_content_fingerprint(url, content, metadata): the section count
FingerprintContent ==
    /\ call.op = "scrape_document"
    /\ call' = [op |-> "create_content_fingerprint", n |-> call.n,
                content |-> call.content,
                section_count |-> SectionCountOf(call.content)]
    /\ UNCHANGED <<now, engine>>
    /\ ServiceIdle

\* the page is scraped again after one heading section was appended to it
\* (main: modified_content = test_content + "\n\n## Additional ..."), and
\* fingerprinted
Rescrape(level) ==
    /\ call.op = "create_content_fingerprint" /\ call.n = 0
    /\ call' = [op |-> "create_content_fingerprint", n |-> 1,
                content |-> call.content \o HeadingSection(level),
                section_count |-> SectionCountOf(call.content \o HeadingSection(level)),
                level |-> level, old_section_count |-> call.section_count]
    /\ UNCHANGED <<now, engine>>
    /\ ServiceIdle

NextContent ==
    \/ FingerprintContent
    \/ \E level \in 1..MaxLevel : Rescrape(level)

SpecContent == ContentInit /\ [][NextContent]_vars

\* ------------------------------------------- the state, saved and loaded

\* dataclasses.asdict: the dict of the fields of a dataclass instance; a
\* value that is a dict already is copied as it is
IsDict(x) == "type" \in DOMAIN x
AsDict(x) == IF IsDict(x) THEN x ELSE [type |-> "dict", items |-> x]
\* asdict recurses into fields that are dataclass instances
EventAsDict(ev) ==
    IF IsDict(ev) THEN ev
    ELSE AsDict([ev EXCEPT
                   !.old_fingerprint = IF @ = None THEN None ELSE AsDict(@),
                   !.new_fingerprint = IF @ = None THEN None ELSE AsDict(@)])

\* state_data of save_state_to_azure.  json.dumps and json.loads keep dicts
\* (with their key order), lists, strings, numbers and None as they are.
StateData(fps, hist, sch) ==
    [keys |-> {"fingerprints", "change_history", "monitoring_schedules"},
     fingerprints |-> [u \in Urls |-> IF fps[u] = None THEN None ELSE AsDict(fps[u])],
     change_history |-> [k \in 1..Len(hist) |-> EventAsDict(hist[k])],
     monitoring_schedules |-> [k \in 1..Len(sch) |-> AsDict(sch[k])]]

\* a snapshot without one of its keys
SnapshotLacking(data, key) == [data EXCEPT !.keys = @ \ {key}]

\* Cls(**data): an instance whose fields are the values of the dict, each
\* as it is
FromDict(d) == d.items

\* load_state_from_azure: the three collections it restores
LoadedFingerprints(data) ==
    IF "fingerprints" \in data.keys
    THEN [u \in Urls |-> IF data.fingerprints[u] = None THEN None
                         ELSE FromDict(data.fingerprints[u])]
    ELSE [u \in Urls |-> None]
LoadedHistory(data) ==
    IF "change_history" \in data.keys
    THEN [k \in 1..Len(data.change_history) |-> FromDict(data.change_history[k])]
    ELSE <<>>
LoadedSchedules(data) ==
    IF "monitoring_schedules" \in data.keys
    THEN [k \in 1..Len(data.monitoring_schedules) |->
              FromDict(data.monitoring_schedules[k])]
    ELSE <<>>

\* save_state_to_azure: the snapshot is uploaded
SaveState ==
    /\ call.op # "save_state_to_azure"
    /\ call' = [op |-> "save_state_to_azure", n |-> call.n,
                blob |-> StateData(content_fingerprints, change_history,
                                   monitoring_schedules)]
    /\ UNCHANGED <<now, content_fingerprints, change_history, monitoring_schedules>>
    /\ ServiceIdle

\* load_state_from_azure of the snapshot just saved, as it was saved or
\* without one of its keys
LoadState ==
    /\ call.op = "save_state_to_azure"
    /\ \E lacking \in {"none", "fingerprints", "change_history", "monitoring_schedules"} :
         LET data == SnapshotLacking(call.blob, lacking)
         IN  /\ content_fingerprints' = LoadedFingerprints(data)
             /\ change_history' = LoadedHistory(data)
             /\ monitoring_schedules' = LoadedSchedules(data)
             /\ call' = [op |-> "load_state_from_azure", n |-> call.n,
                         lacking |-> lacking]
    /\ UNCHANGED now
    /\ ServiceIdle

\* no snapshot was saved or loaded yet
Unsaved == call.op \notin {"save_state_to_azure", "load_state_from_azure"}

\* pages are classified and a URL registered, then the state is saved and
\* loaded
NextSnapshot ==
    \/ /\ Unsaved
       /\ \E url \in Urls : Classify(url)
    \/ /\ Unsaved /\ Len(monitoring_schedules) < MaxMonitored
       /\ \E url \in Urls, priority \in Priorities : Register(url, "procedure", priority)
    \/ SaveState
    \/ LoadState

SpecSnapshot == EngineInit /\ [][NextSnapshot]_vars

\* A new process: ChangeDetectionSystem.__init__ leaves the three maps
\* empty; the snapshot the previous process saved is still in the store.
Restart ==
    /\ call.op = "save_state_to_azure"
    /\ content_fingerprints' = [u \in Urls |-> None]
    /\ change_history' = <<>>
    /\ monitoring_schedules' = <<>>
    /\ call' = [op |-> "__init__", n |-> call.n, blob |-> call.blob]
    /\ UNCHANGED now
    /\ ServiceIdle

\* where a load can fail: before anything is assigned (the download, the
\* JSON, or an entry of 'fingerprints'), on an entry of 'change_history', or
\* on an entry of 'monitoring_schedules'
LoadStages == {"blob", "fingerprints", "change_history", "monitoring_schedules"}

\* the three assignments of load_state_from_azure run one after the other
\* inside one try block: the ones before the failing one have been made
FingerprintsAfterFailedLoad(fps, data, bad) ==
    IF bad \in {"change_history", "monitoring_schedules"}
    THEN LoadedFingerprints(data) ELSE fps
HistoryAfterFailedLoad(hist, data, bad) ==
    IF bad = "monitoring_schedules" THEN LoadedHistory(data) ELSE hist

\* load_state_from_azure, called when the process starts, of the snapshot
\* in the store, in which the part `bad` cannot be read: the exception is
\* caught and logged
LoadStateFails ==
    /\ call.op = "__init__"
    /\ \E bad \in LoadStages :
         /\ content_fingerprints' =
                FingerprintsAfterFailedLoad(content_fingerprints, call.blob, bad)
         /\ change_history' = HistoryAfterFailedLoad(change_history, call.blob, bad)
         /\ monitoring_schedules' = monitoring_schedules
         /\ call' = [op |-> "load_state_from_azure", n |-> call.n,
                     lacking |-> "none", failed_at |-> bad, raised |-> FALSE]
    /\ UNCHANGED now
    /\ ServiceIdle

\* the process that saves the snapshot has not saved it yet
FirstProcess == Unsaved /\ call.op # "__init__"

\* pages are classified and a URL registered, the state is saved, and a new
\* process loads it from a snapshot that cannot be read to its end
NextRestore ==
    \/ /\ FirstProcess
       /\ \E url \in Urls : Classify(url)
    \/ /\ FirstProcess /\ Len(monitoring_schedules) < MaxMonitored
       /\ \E url \in Urls, priority \in Priorities : Register(url, "procedure", priority)
    \/ SaveState
    \/ Restart
    \/ LoadStateFails

SpecRestore == EngineInit /\ [][NextRestore]_vars

\* ------------------------------------------------------------ the scheduler
\* RAGOrchestrator.start_scheduler, _scheduler_loop and stop_scheduler.
\* start_scheduler and stop_scheduler are synchronous; a loop task runs from
\* one await of asyncio.sleep(60) to the next, so one step of a loop is one
\* evaluation of its while condition and, when it holds, one run_pending.

MaxLoops == 2           \* loop tasks created in one behaviour
MaxIterations == 2      \* run_pending calls of one loop task
JobsPerStart == 3       \* incremental update, full scan, cleanup

\* asyncio.create_task(self._scheduler_loop()): the task has not run yet.
\* stopped and iterations are history: stop_scheduler was called while the
\* task was alive; the number of times the task called run_pending.
NewLoop == [pc |-> "created", stopped |-> FALSE, iterations |-> 0]

Alive(k) == loops[k].pc # "ended"

SchedulerIdle == UNCHANGED <<now, engine, service, batch_size, runs, search_index, env>>

StartScheduler ==
    /\ call' = [op |-> "start_scheduler", n |-> Len(loops),
                was_running |-> scheduler_running]
    /\ IF scheduler_running
       THEN UNCHANGED orchestrator
       ELSE /\ Len(loops) < MaxLoops
            /\ jobs' = jobs + JobsPerStart
            /\ scheduler_running' = TRUE
            /\ loops' = Append(loops, NewLoop)
    /\ SchedulerIdle

StopScheduler ==
    /\ call' = [op |-> "stop_scheduler", n |-> Len(loops),
                was_running |-> scheduler_running]
    /\ scheduler_running' = FALSE
    /\ jobs' = 0
    /\ loops' = [k \in 1..Len(loops) |->
                    IF Alive(k) THEN [loops[k] EXCEPT !.stopped = TRUE]
                    ELSE loops[k]]
    /\ SchedulerIdle

\* the task is scheduled: first run, or wake-up from asyncio.sleep(60)
LoopStep(k) ==
    /\ Alive(k)
    /\ IF scheduler_running
       THEN /\ loops[k].iterations < MaxIterations
            /\ loops' = [loops EXCEPT ![k].pc = "sleeping",
                                      ![k].iterations = @ + 1]
       ELSE loops' = [loops EXCEPT ![k].pc = "ended"]
    /\ UNCHANGED <<scheduler_running, jobs, call>>
    /\ SchedulerIdle

NextScheduler ==
    \/ StartScheduler
    \/ StopScheduler
    \/ \E k \in 1..Len(loops) : LoopStep(k)

SpecScheduler == EngineInit /\ [][NextScheduler]_vars

\* ------------------------------------------------------------ properties

Ended(r) == runs[r].pc \in {"done", "raised"}
IsFull(r) == runs[r].kind = "full_sync"
IsIncremental(r) == runs[r].kind = "incremental_sync"
FailuresOf(r, what) == {f \in runs[r].failures : f[1] = what}
HistoryIndexesOf(id) == {k \in 1..Len(sync_history) : sync_history[k].operation_id = id}

\* C1: a failure of the Fetcher, the Indexer or the Object Store for one URL
\* never stops a run: a run that has ended, full or incremental, has fetched
\* each of its candidate URLs exactly once, in order, and every such failure
\* it met is an entry of its error list.
C1_FailuresIsolatedAndRecorded ==
    \A r \in Runs :
        Ended(r) =>
            /\ runs[r].fetched = runs[r].urls
            /\ \A f \in runs[r].failures :
                   f[1] \in {"scrape", "index", "store"} => f \in SeqToSet(runs[r].errors)

\* C2: a full run that has returned, in which only the Fetcher failed (for k
\* of the N validated URLs), has urls_processed = N and urls_failed = k, and
\* returned success exactly when k = 0; this for every batch size.
C2_FullRunCounters ==
    \A r \in Runs :
        (runs[r].pc = "done" /\ IsFull(r) /\ runs[r].failures = FailuresOf(r, "scrape")) =>
            LET N == Len(runs[r].urls)
                k == Cardinality(FailuresOf(r, "scrape"))
            IN  /\ runs[r].urls_processed = N
                /\ runs[r].urls_failed = k
                /\ runs[r].returned.total_processed = N
                /\ runs[r].returned.success = (k = 0)

\* a full run over three URLs, in batches of two, in which the Fetcher failed once
C2_Witness ==
    \E r \in Runs :
        /\ runs[r].pc = "done" /\ IsFull(r)
        /\ runs[r].failures = FailuresOf(r, "scrape")
        /\ Len(runs[r].urls) = 3 /\ batch_size = 2
        /\ Cardinality(FailuresOf(r, "scrape")) = 1
        /\ runs[r].urls_processed = 3 /\ runs[r].urls_failed = 1
        /\ runs[r].returned.success = FALSE

\* C9: a run that has ended has returned a SyncResult without raising, its
\* operation is out of the active set, and exactly one SyncResult of the
\* history carries its operation_id.
C9_RunEndsOnceWithResult ==
    \A r \in Runs :
        Ended(r) =>
            /\ runs[r].pc = "done"
            /\ runs[r].returned # None
            /\ [id |-> runs[r].operation_id, op |-> r] \notin active_operations
            /\ Cardinality(HistoryIndexesOf(runs[r].operation_id)) = 1

\* C10: no two runs that were started have the same operation_id, and a run
\* that is still active has its own entry in the active set (no later start
\* has replaced it).
C10_OperationIdsUnique ==
    /\ \A r1, r2 \in Runs :
          (r1 # r2 /\ runs[r1].pc # "idle" /\ runs[r2].pc # "idle") =>
              runs[r1].operation_id # runs[r2].operation_id
    /\ \A r \in Runs :
          (runs[r].pc # "idle" /\ ~Ended(r)) =>
              [id |-> runs[r].operation_id, op |-> r] \in active_operations

\* the run started last has ended and nothing has run since
LastEnded(r) == Ended(r) /\ Quiet /\ runs[r].order = Started

C5_ObsoleteCleanup ==
    \A r \in Runs :
        (IsFull(r) /\ LastEnded(r) /\ FailuresOf(r, "delete") = {}) =>
            LET validated == SeqToSet(runs[r].urls)
            IN  /\ \A u \in runs[r].start_fps \ validated :
                      /\ search_index[u] = None
                      /\ content_fingerprints[u] = None
                      /\ u \notin SchedKeys(monitoring_schedules)
                /\ \A u \in validated :
                      /\ u \in runs[r].start_fps => content_fingerprints[u] # None
                      /\ u \in runs[r].start_sched => u \in SchedKeys(monitoring_schedules)
                /\ (runs[r].start_sched = {"A", "B", "C"} /\ validated = {"A", "B"})
                      => SchedKeys(monitoring_schedules) = {"A", "B"}

\* a full run over {A, B} after one over {A, B, C}
C5_Witness ==
    \E r \in Runs :
        /\ IsFull(r) /\ LastEnded(r) /\ runs[r].failures = {}
        /\ runs[r].start_fps = {"A", "B", "C"}
        /\ runs[r].start_sched = {"A", "B", "C"}
        /\ runs[r].urls = <<"A", "B">>
        /\ runs[r].deleted = {"C"}
        /\ runs[r].removed_indexed = 1
        /\ SchedKeys(monitoring_schedules) = {"A", "B"}
        /\ search_index["C"] = None

\* C6: a full run whose discovery failed for every source has aborted before
\* any batch: when it has ended it has fetched nothing, has asked for no
\* delete and removed nothing, and its status is failed.
C6_DiscoveryFailureAborts ==
    \A r \in Runs :
        ( /\ IsFull(r) /\ Ended(r)
          /\ FailuresOf(r, "discover") = {<<"discover", ViewTypes[v]>> : v \in 1..Len(ViewTypes)} )
        => /\ runs[r].fetched = <<>>
           /\ runs[r].deleted = {}
           /\ runs[r].removed_indexed = 0
           /\ runs[r].status = "failed"

\* C7: the status of a run starts as pending and only moves pending ->
\* running, running -> completed or running -> failed; a final status never
\* changes.
C7_StatusLifecycle ==
    \A r \in Runs :
        runs[r].pc # "idle" =>
            LET log == runs[r].status_log
            IN  /\ log[1] = "pending"
                /\ \A k \in 1..(Len(log) - 1) :
                      <<log[k], log[k + 1]>> \in
                          {<<"pending", "running">>, <<"running", "completed">>,
                           <<"running", "failed">>}

\* C8: a run that went through all its batches and returned is marked
\* completed and returned success = true when its error list was empty at
\* finalization, and is marked failed and returned success = false otherwise.
C8_SuccessIffNoErrors ==
    \A r \in Runs :
        (runs[r].pc = "done" /\ runs[r].final_success # "none") =>
            IF runs[r].errors = <<>>
            THEN runs[r].status = "completed" /\ runs[r].returned.success = TRUE
            ELSE runs[r].status = "failed" /\ runs[r].returned.success = FALSE

\* one run of each outcome: a clean run, and a run in which one fetch failed
C8_Witness ==
    \E r1, r2 \in Runs :
        /\ runs[r1].pc = "done" /\ runs[r1].final_success # "none"
        /\ runs[r1].errors = <<>> /\ runs[r1].status = "completed"
        /\ runs[r1].total_processed > 0
        /\ runs[r2].pc = "done" /\ runs[r2].final_success # "none"
        /\ runs[r2].errors # <<>> /\ runs[r2].status = "failed"
        /\ runs[r2].returned.success = FALSE

\* C11: an incremental run started when no schedule entry is due completes
\* in the step that starts it: its result has all four counts 0, no error
\* and success = true, nothing was fetched or submitted, and no fingerprint,
\* schedule entry or indexed page has changed.
C11_NothingDueCompletesAtOnce ==
    [][\A r \in Runs :
          ( /\ runs[r].pc = "idle"
            /\ runs'[r].kind = "incremental_sync"
            /\ \A k \in 1..Len(monitoring_schedules) :
                   monitoring_schedules[k].next_check > now' )
          => /\ runs'[r].pc = "done"
             /\ runs'[r].returned # None
             /\ runs'[r].returned.total_processed = 0
             /\ runs'[r].returned.newly_indexed = 0
             /\ runs'[r].returned.updated_indexed = 0
             /\ runs'[r].returned.removed_indexed = 0
             /\ runs'[r].returned.errors = <<>>
             /\ runs'[r].returned.success = TRUE
             /\ sync_history' = Append(sync_history, runs'[r].returned)
             /\ runs'[r].fetched = <<>> /\ runs'[r].submitted = <<>>
             /\ UNCHANGED <<content_fingerprints, change_history,
                            monitoring_schedules, search_index>>]_vars

\* an incremental run that found URLs monitored and none of them due
C11_Witness ==
    \E r \in Runs :
        /\ IsIncremental(r) /\ runs[r].pc = "done"
        /\ runs[r].urls = <<>>
        /\ Len(monitoring_schedules) > 0
        /\ runs[r].returned.success = TRUE
        /\ runs[r].returned.total_processed = 0

\* the last step was a direct call of detect_changes
Classified == call.op = "detect_changes"
\* some hash of the fingerprint new differs from the one stored for the URL
SomeHashDiffers(old, new) ==
    \/ old.content_hash # new.content_hash
    \/ old.structural_hash # new.structural_hash
    \/ old.metadata_hash # new.metadata_hash

\* C12: detect_changes appends an event for the URL exactly when the URL had
\* no stored fingerprint or one of the three hashes differs; when the three
\* hashes are equal it returns no event and leaves the history as it was.
C12_EventIffHashDiffers ==
    [][Classified' =>
          LET url == call'.url
              old == content_fingerprints[url]
              emits == IF old = None THEN TRUE ELSE SomeHashDiffers(old, call'.new)
          IN  IF emits
              THEN /\ call'.result # None
                   /\ call'.result.url = url
                   /\ change_history' = Append(change_history, call'.result)
              ELSE /\ call'.result = None
                   /\ change_history' = change_history]_vars

\* a page classified a second time with the three hashes it had when it was
\* new: no event
C12_Witness ==
    /\ Classified /\ call.result = None
    /\ Len(change_history) = 1
    /\ change_history[1].url = call.url
    /\ change_history[1].change_type = "new"
    /\ change_history[1].new_fingerprint.content_hash = call.new.content_hash
    /\ change_history[1].new_fingerprint.metadata_hash = call.new.metadata_hash

\* C13: for a URL with no stored fingerprint detect_changes returns an event
\* of type new with confidence 1.0, and the new fingerprint is the stored
\* fingerprint of the URL afterwards.
C13_NewContent ==
    [][(Classified' /\ content_fingerprints[call'.url] = None) =>
          /\ call'.result # None
          /\ call'.result.change_type = "new"
          /\ call'.result.confidence_score = <<1, 1>>
          /\ call'.result.old_fingerprint = None
          /\ content_fingerprints'[call'.url] = call'.new
          /\ \A u \in Urls \ {call'.url} :
                 content_fingerprints'[u] = content_fingerprints[u]]_vars

\* a second URL classified as new after a first
C13_Witness ==
    /\ Classified /\ call.result # None
    /\ Len(change_history) = 2
    /\ change_history[1].change_type = "new"
    /\ change_history[2].change_type = "new"
    /\ change_history[2].url = call.url
    /\ content_fingerprints[call.url] = call.new

\* C14: the type of an event for a URL with a stored fingerprint is the first
\* differing category in the order structure, content, metadata; every
\* event of the history has one of the types new, content, structure,
\* metadata.
C14_PrimaryChangeType ==
    [][Classified' =>
          /\ \A k \in 1..Len(change_history') :
                 change_history'[k].change_type \in
                     {"new", "content", "structure", "metadata"}
          /\ (content_fingerprints[call'.url] # None /\ call'.result # None) =>
                 LET old == content_fingerprints[call'.url]
                     new == call'.new
                 IN  call'.result.change_type =
                        IF old.structural_hash # new.structural_hash THEN "structure"
                        ELSE IF old.content_hash # new.content_hash THEN "content"
                        ELSE "metadata"]_vars

\* all three hashes differ and the event is a structure event
C14_Witness ==
    /\ Classified /\ call.result # None
    /\ call.result.old_fingerprint # None
    /\ call.result.old_fingerprint.content_hash # call.new.content_hash
    /\ call.result.old_fingerprint.structural_hash # call.new.structural_hash
    /\ call.result.old_fingerprint.metadata_hash # call.new.metadata_hash
    /\ call.result.change_type = "structure"

\* C15: the confidence of every event of the history is between 0 and 1.
C15_ConfidenceInUnitInterval ==
    \A k \in 1..Len(change_history) :
        LET c == change_history[k].confidence_score
        IN  c[2] > 0 /\ RatLe(<<0, 1>>, c) /\ RatLe(c, <<1, 1>>)

\* a content change from 0 words to 20, the structure as it was: the ratio
\* 40 is capped at 1
C15_Witness ==
    /\ Len(change_history) = 2
    /\ \E k \in 1..2 :
          /\ change_history[k].old_fingerprint # None
          /\ change_history[k].old_fingerprint.word_count = 0
          /\ change_history[k].old_fingerprint.section_count = 0
          /\ change_history[k].new_fingerprint.word_count = 20
          /\ change_history[k].change_type = "content"
          /\ change_history[k].confidence_score = <<1, 1>>

\* C16: the list get_urls_due_for_check returns holds exactly the URLs whose
\* next_check is at or before now, each once, every high URL before every
\* medium one and every medium one before every low one, and URLs of equal
\* priority in the order in which they entered the schedule.
C16_DueListExactAndOrdered ==
    call.op = "get_urls_due_for_check" =>
        LET sch == monitoring_schedules
            res == call.result
            due == {k \in 1..Len(sch) : sch[k].next_check <= now}
            at(i) == CHOOSE k \in 1..Len(sch) : sch[k].url = res[i]
            rank(i) == CASE sch[at(i)].priority = "high" -> 0
                         [] sch[at(i)].priority = "medium" -> 1
                         [] sch[at(i)].priority = "low" -> 2
        IN  /\ {res[i] : i \in 1..Len(res)} = {sch[k].url : k \in due}
            /\ Len(res) = Cardinality(due)
            /\ \A i, j \in 1..Len(res) :
                   i < j => \/ rank(i) < rank(j)
                            \/ rank(i) = rank(j) /\ at(i) < at(j)

\* three URLs due, entered as medium, high, medium: the high one first, the
\* two medium ones in the order they entered
C16_Witness ==
    /\ call.op = "get_urls_due_for_check"
    /\ Len(monitoring_schedules) = 3
    /\ monitoring_schedules[1].priority = "medium"
    /\ monitoring_schedules[2].priority = "high"
    /\ monitoring_schedules[3].priority = "medium"
    /\ call.result = <<monitoring_schedules[2].url, monitoring_schedules[1].url,
                       monitoring_schedules[3].url>>

\* C17: after setup_monitoring_schedule(url, content_type, priority) with a
\* content type of the table the entry of the URL has frequency_hours = the
\* base rate of the type, halved (floor, at least 1) for high, doubled for
\* low, as it is for medium; last_check empty; next_check = now +
\* frequency_hours; procedure with high gives 3.
C17_RegisterFrequency ==
    (call.op = "setup_monitoring_schedule" /\ call.content_type # "unknown") =>
        LET e == SchedGet(monitoring_schedules, call.url)
            base == CASE call.content_type = "procedure" -> 6
                      [] call.content_type = "reference" -> 24
                      [] call.content_type = "overview" -> 72
                      [] call.content_type = "faq" -> 12
                      [] call.content_type = "documentation" -> 48
            half == IF base \div 2 >= 1 THEN base \div 2 ELSE 1
            hours == CASE call.priority = "high" -> half
                       [] call.priority = "low" -> 2 * base
                       [] call.priority = "medium" -> base
        IN  /\ call.url \in SchedKeys(monitoring_schedules)
            /\ e.content_type = call.content_type
            /\ e.priority = call.priority
            /\ e.frequency_hours = hours
            /\ e.last_check = NoTime
            /\ e.next_check = now + hours * 3600
            /\ (call.content_type = "procedure" /\ call.priority = "high")
                   => e.frequency_hours = 3

\* a procedure registered with high priority, some hours after the start
C17_Witness ==
    /\ call.op = "setup_monitoring_schedule"
    /\ call.content_type = "procedure" /\ call.priority = "high"
    /\ now > 0
    /\ SchedGet(monitoring_schedules, call.url).frequency_hours = 3
    /\ SchedGet(monitoring_schedules, call.url).next_check = now + 10800

\* C18, as the claim states it: a content type that is not in the table is
\* registered with 48 hours for medium, 24 for high and 96 for low.
C18_FallbackIs48 ==
    (call.op = "setup_monitoring_schedule" /\ call.content_type = "unknown") =>
        SchedGet(monitoring_schedules, call.url).frequency_hours =
            CASE call.priority = "high" -> 24
              [] call.priority = "low" -> 96
              [] call.priority = "medium" -> 48

\* C18, amended: a content type that is not in the table is registered with
\* 24 hours for medium, 12 for high and 48 for low.
C18_FallbackIs24 ==
    (call.op = "setup_monitoring_schedule" /\ call.content_type = "unknown") =>
        SchedGet(monitoring_schedules, call.url).frequency_hours =
            CASE call.priority = "high" -> 12
              [] call.priority = "low" -> 48
              [] call.priority = "medium" -> 24

\* a type that is not in the table registered with low priority: 48 hours
C18_Witness ==
    /\ call.op = "setup_monitoring_schedule"
    /\ call.content_type = "unknown" /\ call.priority = "low"
    /\ SchedGet(monitoring_schedules, call.url).frequency_hours = 48
    /\ SchedGet(monitoring_schedules, call.url).last_check = NoTime

\* C19: update_monitoring_schedule(url) on a URL of the schedule sets
\* last_check = now and next_check = now + frequency_hours of its entry and
\* leaves the rest of the entry and every other entry as they were; on a URL
\* that is not in the schedule it creates nothing and changes nothing.
C19_MarkCheckedFrame ==
    [][call'.op = "update_monitoring_schedule" =>
          LET sch == monitoring_schedules
          IN  /\ Len(monitoring_schedules') = Len(sch)
              /\ \A k \in 1..Len(sch) :
                     IF sch[k].url = call'.url
                     THEN monitoring_schedules'[k] =
                            [sch[k] EXCEPT !.last_check = now',
                                           !.next_check = now' + sch[k].frequency_hours * 3600]
                     ELSE monitoring_schedules'[k] = sch[k]
              /\ UNCHANGED <<content_fingerprints, change_history>>]_vars

\* one of two entries checked some hours after both were registered
C19_Witness ==
    /\ call.op = "update_monitoring_schedule"
    /\ Len(monitoring_schedules) = 2
    /\ now > 0
    /\ \E k \in 1..2 :
          /\ monitoring_schedules[k].url = call.url
          /\ monitoring_schedules[k].last_check = now
          /\ monitoring_schedules[k].created_at < now
          /\ monitoring_schedules[3 - k].last_check = NoTime

\* C20: every schedule entry has frequency_hours >= 1 and next_check =
\* last_check + frequency_hours when last_check is set, the time the entry
\* was created + frequency_hours when it is not.
C20_NextCheckInvariant ==
    \A k \in 1..Len(monitoring_schedules) :
        LET e == monitoring_schedules[k]
        IN  /\ e.frequency_hours >= 1
            /\ e.next_check = (IF e.last_check # NoTime THEN e.last_check
                                                        ELSE e.created_at)
                               + e.frequency_hours * 3600

\* an entry checked after its creation beside one created later and not
\* checked yet
C20_Witness ==
    /\ Len(monitoring_schedules) = 2
    /\ \E k \in 1..2 :
          /\ monitoring_schedules[k].last_check > monitoring_schedules[k].created_at
          /\ monitoring_schedules[k].priority = "high"
          /\ monitoring_schedules[3 - k].last_check = NoTime
          /\ monitoring_schedules[3 - k].created_at > 0
          /\ monitoring_schedules[3 - k].priority = "low"

\* C21: once a URL has a schedule entry, as long as it has one, the entry's
\* frequency_hours keeps its value and a last_check that is set stays set,
\* through every step of every run.
C21_EntryKeptThroughRuns ==
    [][\A u \in SchedKeys(monitoring_schedules) \cap SchedKeys(monitoring_schedules') :
          LET e == SchedGet(monitoring_schedules, u)
              f == SchedGet(monitoring_schedules', u)
          IN  /\ f.frequency_hours = e.frequency_hours
              /\ e.last_check # NoTime => f.last_check # NoTime]_vars

\* C22: every URL that has a schedule entry has a stored fingerprint, and
\* the schedule holds one entry for it.
C22_ScheduledHaveFingerprint ==
    /\ \A u \in SchedKeys(monitoring_schedules) : content_fingerprints[u] # None
    /\ \A j, k \in 1..Len(monitoring_schedules) :
           monitoring_schedules[j].url = monitoring_schedules[k].url => j = k

\* a second full run removed C as obsolete, fingerprint and entry; a URL
\* whose upsert failed has a fingerprint and no entry; another has both
C22_Witness ==
    /\ \E r \in Runs : Ended(r) /\ IsFull(r) /\ "C" \in runs[r].deleted
    /\ content_fingerprints["C"] = None
    /\ "C" \notin SchedKeys(monitoring_schedules)
    /\ \E u \in Urls : content_fingerprints[u] # None /\ u \notin SchedKeys(monitoring_schedules)
    /\ SchedKeys(monitoring_schedules) # {}

\* C23: loading the snapshot just saved leaves the fingerprint map, the
\* change history and the schedule map equal to what was saved; loading a
\* snapshot that lacks one of the three keys leaves that collection empty
\* and the other two equal to what was saved.
C23_SnapshotRoundTrip ==
    [][call'.op = "load_state_from_azure" =>
          /\ content_fingerprints' =
                 IF call'.lacking = "fingerprints" THEN [u \in Urls |-> None]
                 ELSE content_fingerprints
          /\ change_history' =
                 IF call'.lacking = "change_history" THEN <<>> ELSE change_history
          /\ monitoring_schedules' =
                 IF call'.lacking = "monitoring_schedules" THEN <<>>
                 ELSE monitoring_schedules]_vars

\* C24: an incremental run that has returned has an entry in its error list
\* for every URL whose fetch failed, and if a fetch failed it has
\* urls_failed >= 1 and returned success = false.
C24_IncrementalFetchFailureRecorded ==
    \A r \in Runs :
        (IsIncremental(r) /\ runs[r].pc = "done") =>
            /\ \A f \in FailuresOf(r, "scrape") : f \in SeqToSet(runs[r].errors)
            /\ FailuresOf(r, "scrape") # {} =>
                   /\ runs[r].urls_failed >= 1
                   /\ runs[r].returned.success = FALSE

\* C25: a step in which the Indexer upsert fails for a URL, in a full or an
\* incremental run, records an error for the URL and leaves the schedule as
\* it was.
C25_FailedUpsertKeepsSchedule ==
    [][\A r \in Runs : \A u \in Urls :
          (<<"index", u>> \in runs'[r].failures /\ <<"index", u>> \notin runs[r].failures) =>
              /\ <<"index", u>> \in SeqToSet(runs'[r].errors \o runs'[r].b_errors)
              /\ monitoring_schedules' = monitoring_schedules]_vars

C27_CleanupRemovesTogether ==
    [][\A r \in Runs :
          (runs[r].pc = "cleanup" /\ runs'[r] # runs[r]) =>
              LET gone == {u \in Urls : content_fingerprints[u] # None
                                          /\ content_fingerprints'[u] = None}
                  failed == {u \in Urls : <<"delete", u>> \in runs'[r].failures
                                            /\ <<"delete", u>> \notin runs[r].failures}
              IN  /\ runs'[r].removed_indexed = runs[r].removed_indexed + Cardinality(gone)
                  /\ SchedKeys(monitoring_schedules') = SchedKeys(monitoring_schedules) \ gone
                  /\ failed # {} =>
                         /\ content_fingerprints' = content_fingerprints
                         /\ monitoring_schedules' = monitoring_schedules
                         /\ runs'[r].removed_indexed = runs[r].removed_indexed
                  /\ runs'[r].pc = "done" =>
                         runs'[r].returned.removed_indexed = runs'[r].removed_indexed]_vars

\* a full run that returned after one delete failed and one succeeded: one
\* obsolete URL kept with fingerprint and entry, one gone, removed_indexed 1
C27_Witness ==
    \E r \in Runs : \E u, v \in Urls :
        /\ runs[r].pc = "done" /\ IsFull(r)
        /\ {u, v} \subseteq runs[r].deleted /\ u # v
        /\ <<"delete", u>> \in runs[r].failures
        /\ content_fingerprints[u] # None /\ u \in SchedKeys(monitoring_schedules)
        /\ <<"delete", v>> \notin runs[r].failures
        /\ content_fingerprints[v] = None /\ v \notin SchedKeys(monitoring_schedules)
        /\ runs[r].returned.removed_indexed = 1

\* C28: a run in which nothing raised (no discovery raised, and the run
\* processed all its batches and returned) does not end with status failed,
\* whatever per-item errors its batches met.
C28_FailedOnlyWhenRaised ==
    \A r \in Runs :
        (runs[r].pc = "done" /\ FailuresOf(r, "discover") = {}) =>
            runs[r].status # "failed"

\* C28 (amended): the status of a started run stays running while its
\* batches are processed, whatever per-item errors are collected; it becomes
\* failed only in the step that ends the run, and a run that returns is
\* failed exactly when its error list is non-empty.
C28_FailedAtFinalization ==
    [][\A r \in Runs :
          /\ runs'[r].pc \notin {"idle", "done", "raised"} =>
                 runs'[r].status = "running"
          /\ (runs[r].status = "running" /\ runs'[r].status = "failed") =>
                 /\ runs'[r].pc \in {"done", "raised"}
                 /\ runs'[r].pc = "done" => runs'[r].errors # <<>>
          /\ (runs[r].status = "running" /\ runs'[r].pc = "done"
                 /\ runs'[r].errors # <<>>) =>
                 runs'[r].status = "failed"]_vars

\* a full run in which no discovery failed and one fetch failed has processed
\* all its URLs, returned, and is marked failed
C28_Witness ==
    \E r \in Runs :
        /\ runs[r].pc = "done" /\ runs[r].kind = "full_sync"
        /\ FailuresOf(r, "discover") = {}
        /\ FailuresOf(r, "scrape") # {}
        /\ runs[r].urls_processed = Len(runs[r].urls)
        /\ runs[r].status_log = <<"running", "failed">>
        /\ runs[r].status = "failed"

\* C29: from one step of a started run to the next its urls_processed,
\* urls_updated and urls_failed do not decrease, and while the run is
\* active urls_failed is the length of the error list of its operation.
C29_CountersMonotone ==
    [][\A r \in Runs :
          /\ runs[r].pc # "idle" =>
                 /\ runs'[r].urls_processed >= runs[r].urls_processed
                 /\ runs'[r].urls_updated >= runs[r].urls_updated
                 /\ runs'[r].urls_failed >= runs[r].urls_failed
          /\ runs'[r].pc \notin {"idle", "done", "raised"} =>
                 runs'[r].urls_failed = Len(runs'[r].op_errors)]_vars

\* a full run between its second batch and its cleanup: three URLs in
\* batches of two, a failed fetch in the first batch, counters 3, 2, 1
C29_Witness ==
    \E r \in Runs :
        /\ IsFull(r) /\ runs[r].pc = "cleanup_start"
        /\ batch_size = 2 /\ Len(runs[r].urls) = 3
        /\ runs[r].urls_processed = 3
        /\ runs[r].urls_updated = 2
        /\ runs[r].urls_failed = 1
        /\ Len(runs[r].op_errors) = 1

\* C30: the last_modified of the stored fingerprint of a URL changes only in
\* a step that appends a change event for that URL; a call of detect_changes
\* that finds the three hashes equal to the stored ones returns no event and
\* stores the new fingerprint with the last_modified the stored one had.
C30_LastModifiedOnlyOnEvent ==
    [][/\ \A url \in Urls :
              (/\ content_fingerprints[url] # None
               /\ content_fingerprints'[url] # None
               /\ content_fingerprints'[url].last_modified #
                      content_fingerprints[url].last_modified) =>
                  /\ Len(change_history') = Len(change_history) + 1
                  /\ change_history'[Len(change_history')].url = url
       /\ (/\ call'.op = "detect_changes"
           /\ content_fingerprints[call'.url] # None
           /\ ~SomeHashDiffers(content_fingerprints[call'.url], call'.new)) =>
              /\ call'.result = None
              /\ change_history' = change_history
              /\ content_fingerprints' =
                     [content_fingerprints EXCEPT ![call'.url] =
                         [call'.new EXCEPT !.last_modified =
                             content_fingerprints[call'.url].last_modified]]]_vars

\* a page first seen at time 0 was checked again six hours later with the
\* same three hashes: no event, and the stored fingerprint still carries the
\* time 0 although the fingerprint handed in carried the time of the check
C30_Witness ==
    /\ Classified
    /\ call.result = None
    /\ now > 0
    /\ call.new.last_modified = now
    /\ content_fingerprints[call.url] # None
    /\ content_fingerprints[call.url].last_modified = 0
    /\ content_fingerprints[call.url].content_hash = call.new.content_hash
    /\ Len(change_history) = 1

\* s is an initial part of t
IsPrefixOf(s, t) == Len(s) <= Len(t) /\ SubSeq(t, 1, Len(s)) = s

\* the place of a URL in the list of a run
PlaceIn(url, urls) == CHOOSE k \in 1..Len(urls) : urls[k] = url

\* the entries of the error list of a run that are about one URL, the ones
\* of the batch in progress included
PerUrlErrors(rr) ==
    SelectSeq(rr.errors \o rr.b_errors, LAMBDA e : e[1] \in {"scrape", "index"})

\* C31: within one run the URLs are fetched in the order of the list (which
\* is batch order and, inside a batch, list order); the per-URL entries of the
\* error list are in that order; a change event is appended in the step that
\* fetches its URL, so the events are in that order too; and the error list
\* and the change history only grow at the end.
C31_ProcessingOrder ==
    [][/\ IsPrefixOf(change_history, change_history')
       /\ Len(change_history') <= Len(change_history) + 1
       /\ Len(change_history') = Len(change_history) + 1 =>
              \E r \in Runs :
                  /\ runs'[r].fetched =
                         Append(runs[r].fetched,
                                change_history'[Len(change_history')].url)
                  /\ \A q \in Runs \ {r} : runs'[q].fetched = runs[q].fetched
       /\ \A r \in Runs :
              /\ IsPrefixOf(runs'[r].fetched, runs'[r].urls)
              /\ IsPrefixOf(runs[r].fetched, runs'[r].fetched)
              /\ IsPrefixOf(runs[r].errors \o runs[r].b_errors,
                            runs'[r].errors \o runs'[r].b_errors)
              /\ IsPrefixOf(runs[r].op_errors, runs'[r].op_errors)
              /\ LET es == PerUrlErrors(runs'[r])
                 IN  \A j, k \in 1..Len(es) :
                         j < k => /\ es[j][2] \in SeqToSet(runs'[r].fetched)
                                  /\ es[k][2] \in SeqToSet(runs'[r].fetched)
                                  /\ PlaceIn(es[j][2], runs'[r].urls)
                                        < PlaceIn(es[k][2], runs'[r].urls)]_vars

\* a full run over three URLs in batches of 2 has ended: the fetch of the
\* first URL failed, the upsert of the third failed, and the second gave a
\* change event
C31_Witness ==
    \E r \in Runs :
        /\ runs[r].pc = "done" /\ runs[r].kind = "full_sync"
        /\ batch_size = 2
        /\ runs[r].fetched = <<"A", "B", "C">>
        /\ runs[r].errors = <<<<"scrape", "A">>, <<"index", "C">>>>
        /\ Len(change_history) >= 2
        /\ change_history[Len(change_history) - 1].url = "B"
        /\ change_history[Len(change_history)].url = "C"

\* the URLs that have a stored fingerprint
FingerprintKeys(fps) == {u \in Urls : fps[u] # None}

\* C32: a step in which a URL loses its fingerprint or its schedule entry is
\* a step of the obsolete cleanup of a full run, for a URL that cleanup then
\* deleted; no step of registering, listing the due URLs, marking checked,
\* classifying or of an incremental run shrinks either set, and an
\* incremental run counts and reports removed_indexed = 0.
C32_RemovedOnlyByCleanup ==
    [][/\ \A u \in Urls :
              (\/ u \in FingerprintKeys(content_fingerprints)
                     \ FingerprintKeys(content_fingerprints')
               \/ u \in SchedKeys(monitoring_schedules)
                     \ SchedKeys(monitoring_schedules')) =>
                  \E r \in Runs :
                      /\ runs[r].kind = "full_sync" /\ runs[r].pc = "cleanup"
                      /\ u \in runs'[r].deleted \ runs[r].deleted
       /\ \A r \in Runs :
              runs'[r].kind = "incremental_sync" =>
                  /\ runs'[r].removed_indexed = 0
                  /\ runs'[r].deleted = {}
                  /\ runs'[r].pc = "done" => runs'[r].returned.removed_indexed = 0]_vars

\* an incremental run fetched a due URL and returned with removed_indexed 0;
\* after it a full run deleted an obsolete URL, which has no fingerprint and
\* no schedule entry any more, while the other URLs kept theirs
C32_Witness ==
    \E r1, r2 \in Runs : \E u, v \in Urls :
        /\ runs[r1].pc = "done" /\ runs[r1].kind = "incremental_sync"
        /\ runs[r1].fetched # <<>>
        /\ runs[r1].returned.removed_indexed = 0
        /\ runs[r2].pc = "done" /\ runs[r2].kind = "full_sync"
        /\ runs[r2].order > runs[r1].order
        /\ u \in runs[r2].deleted
        /\ content_fingerprints[u] = None
        /\ u \notin SchedKeys(monitoring_schedules)
        /\ content_fingerprints[v] # None
        /\ v \in SchedKeys(monitoring_schedules)

\* C33: a load that fails part-way is not raised to the caller and leaves the
\* fingerprint map, the change history and the schedule map as they were
\* before the load.
C33_FailedLoadLeavesState ==
    [][(call'.op = "load_state_from_azure" /\ call.op = "__init__") =>
           /\ ~call'.raised
           /\ content_fingerprints' = content_fingerprints
           /\ change_history' = change_history
           /\ monitoring_schedules' = monitoring_schedules]_vars

\* C34: shutdown saves the aggregate state, and once it was requested no
\* run fetches a further URL and no run is started.
C34_NoNewWorkAfterShutdown ==
    [][/\ (call'.op = "shutdown" /\ call.op # "shutdown") =>
              call'.saved = SyncStateData
       /\ call.op = "shutdown" =>
              \A r \in Runs :
                  /\ runs'[r].fetched = runs[r].fetched
                  /\ runs[r].pc = "idle" => runs'[r].pc = "idle"]_vars

\* the values of the categories in which two fingerprints differ
CategoryValues(old, new) ==
    (IF old.content_hash # new.content_hash
     THEN {IF 2 * Abs(new.word_count - old.word_count) >= Max(old.word_count, 1)
           THEN <<1, 1>>
           ELSE <<2 * Abs(new.word_count - old.word_count), Max(old.word_count, 1)>>}
     ELSE {})
    \cup (IF old.structural_hash # new.structural_hash
          THEN {IF 3 * Abs(new.section_count - old.section_count)
                      >= Max(old.section_count, 1)
                THEN <<1, 1>>
                ELSE <<3 * Abs(new.section_count - old.section_count),
                       Max(old.section_count, 1)>>}
          ELSE {})
    \cup (IF old.metadata_hash # new.metadata_hash
          THEN {IF old.title # new.title THEN <<8, 10>> ELSE <<3, 10>>}
          ELSE {})

\* C35: the confidence of the event of a changed document is the greatest of
\* the values of the categories that differ: min(2 |dw| / max(w, 1), 1) for
\* content, min(3 |ds| / max(s, 1), 1) for structure, 0.8 or 0.3 for metadata
\* with or without a changed title.
C35_ConfidenceIsMaximum ==
    \A k \in 1..Len(change_history) :
        LET e == change_history[k]
            c == e.confidence_score
            vs == CategoryValues(e.old_fingerprint, e.new_fingerprint)
        IN  e.old_fingerprint # None =>
                /\ vs # {}
                /\ \E v \in vs : c[1] * v[2] = v[1] * c[2]
                /\ \A v \in vs : v[1] * c[2] <= c[1] * v[2]

\* a page went from 300 words to 310 with another metadata digest and the
\* same title: content gives 20/300, metadata 0.3, the confidence is 0.3
C35_Witness ==
    \E k \in 1..Len(change_history) :
        LET e == change_history[k]
        IN  /\ e.old_fingerprint # None
            /\ e.old_fingerprint.word_count = 300
            /\ e.new_fingerprint.word_count = 310
            /\ e.old_fingerprint.structural_hash = e.new_fingerprint.structural_hash
            /\ e.old_fingerprint.metadata_hash # e.new_fingerprint.metadata_hash
            /\ e.old_fingerprint.title = e.new_fingerprint.title
            /\ e.confidence_score[1] * 10 = 3 * e.confidence_score[2]

\* C36: the fingerprint of a document scraped again after one heading
\* section, of whatever level, was appended to it has a section_count
\* exactly 1 more than the fingerprint before.
C36_AppendedHeadingCountsOne ==
    (call.op = "create_content_fingerprint" /\ call.n = 1) =>
        call.section_count = call.old_section_count + 1

\* C37: total_syncs = successful_syncs + failed_syncs in every state; in
\* every step total_syncs grows by the number of SyncResults appended to the
\* history; and the step in which a run returns, an incremental run that
\* found nothing due included, adds one to total_syncs and one to exactly
\* one of successful_syncs and failed_syncs.
C37_EveryRunCounted ==
    [][/\ sync_metrics'.total_syncs =
              sync_metrics'.successful_syncs + sync_metrics'.failed_syncs
       /\ sync_metrics'.total_syncs - sync_metrics.total_syncs =
              Len(sync_history') - Len(sync_history)
       /\ \A r \in Runs :
              (runs[r].pc # "done" /\ runs'[r].pc = "done") =>
                  /\ sync_metrics'.total_syncs = sync_metrics.total_syncs + 1
                  /\ \/ /\ sync_metrics'.successful_syncs =
                               sync_metrics.successful_syncs + 1
                        /\ sync_metrics'.failed_syncs = sync_metrics.failed_syncs
                     \/ /\ sync_metrics'.failed_syncs = sync_metrics.failed_syncs + 1
                        /\ sync_metrics'.successful_syncs =
                               sync_metrics.successful_syncs]_vars

\* the entries of an error list that are about one URL
PerUrlEntries(errors) == SelectSeq(errors, LAMBDA e : e[1] \in {"scrape", "index"})

\* C38: in every full run total_processed = newly_indexed + updated_indexed
\* + the number of per-URL entries of the error list, in the totals of the
\* run after each batch and in the result it returns, so newly_indexed +
\* updated_indexed never exceeds total_processed.
C38_ProcessedAccounted ==
    \A r \in Runs :
        runs[r].kind = "full_sync" =>
            /\ runs[r].total_processed =
                   runs[r].newly_indexed + runs[r].updated_indexed
                   + Len(PerUrlEntries(runs[r].errors))
            /\ runs[r].newly_indexed + runs[r].updated_indexed
                   <= runs[r].total_processed
            /\ runs[r].pc = "done" =>
                   /\ runs[r].returned.total_processed = Len(runs[r].fetched)
                   /\ runs[r].returned.total_processed =
                          runs[r].returned.newly_indexed
                          + runs[r].returned.updated_indexed
                          + Len(PerUrlEntries(runs[r].returned.errors))

\* a full run over three URLs returned: one fetch failed, one upsert failed,
\* one document was indexed
C38_Witness ==
    \E r \in Runs :
        /\ runs[r].pc = "done" /\ runs[r].kind = "full_sync"
        /\ runs[r].returned.total_processed = 3
        /\ runs[r].returned.newly_indexed + runs[r].returned.updated_indexed = 1
        /\ FailuresOf(r, "scrape") # {} /\ FailuresOf(r, "index") # {}
        /\ Len(runs[r].returned.errors) = 2

\* the fingerprint carries the three hashes of page p served for url
HasHashesOf(fp, url, p) ==
    /\ fp.content_hash = ContentHashOf(p)
    /\ fp.structural_hash = StructuralHashOf(p)
    /\ fp.metadata_hash = MetadataHashOf(ScrapeMetadata(url, p))

\* two different runs have fetched the same page for url, no other page was
\* classified for url, and no cleanup took url for obsolete
FetchedSame(r1, r2, url) ==
    /\ r1 # r2
    /\ runs[r1].seen[url] # None
    /\ runs[r2].seen[url] = runs[r1].seen[url]
    /\ \A k \in 1..Len(change_history) :
           change_history[k].url = url =>
               HasHashesOf(change_history[k].new_fingerprint, url, runs[r1].seen[url])
    /\ \A r \in Runs : url \notin runs[r].deleted

ActiveLoops == {k \in 1..Len(loops) : Alive(k) /\ scheduler_running}

\* C40: at most one scheduler loop is active at any time, whatever the
\* sequence of start_scheduler and stop_scheduler calls: start_scheduler
\* while the scheduler is running registers no job and starts no loop, and a
\* loop that stop_scheduler stopped never calls run_pending again.
C40_AtMostOneLoop ==
    /\ [](Cardinality(ActiveLoops) <= 1)
    /\ [][/\ (call' # call /\ call'.op = "start_scheduler" /\ scheduler_running)
               => (jobs' = jobs /\ loops' = loops)
          /\ \A k \in 1..Len(loops) :
                loops[k].stopped => loops'[k].iterations = loops[k].iterations]_vars

====
